---- MODULE Spec2Model ----
(***************************************************************************)
(* A model of the card-text core of AllInOneMTGBuilder:                    *)
(*   - the atom pattern matcher               (card_atoms.py)              *)
(*   - the two tier classifiers               (OracleMine.py,              *)
(*                                             card_effects.py)            *)
(*   - the effect parser and card assembly    (card_effects.py)            *)
(*   - engine and synergy scoring             (card_effects.py)            *)
(*                                                                         *)
(* Texts are TLA+ strings; a character is a string of length one.          *)
(* Optional values (Python None / a value) are <<>> / <<v>>.               *)
(* Scores are kept in tenths (30 stands for 3.0).                          *)
(***************************************************************************)
EXTENDS Integers, Sequences, FiniteSets, TLC

VARIABLES
    atom,       \* the concrete atom handed to atom_matches
    pattern,    \* the pattern handed to atom_matches
    copied,     \* TRUE when pattern was built by copying atom
    edits,      \* the pattern fields changed since, as <<field, how>>
    matched,    \* <<>> before the call, <<result>> after atom_matches
    oracle_text, \* the oracle text of the row being processed
    nfrag,      \* the number of fragments oracle_text was put together from
    clause,     \* the clause of oracle_text handed to classify_tier
    tier,       \* <<>> or <<result of classify_tier(clause)>>
    ability,    \* the ability of oracle_text handed to _guess_effect_type
    guess,      \* <<>> or <<result of _guess_effect_type(ability)>>
    effects,    \* <<>> or <<result of parse_effects_from_text(oracle_text)>>
    row,        \* the table row handed to card_from_row
    card,       \* <<>> or <<the Card card_from_row made of row>>
    kept,       \* <<>> or <<an earlier row and the Card made of it>>
    calls,      \* the calls made since that Card was kept, oldest first
    score,      \* <<>> or <<result of the last scoring call>>
    summary,    \* <<>> or <<result of summarize_card_engine(card)>>
    card_a,     \* the first Card handed to card_synergy
    card_b,     \* the second Card handed to card_synergy
    synergy     \* <<>> or <<result of card_synergy(card_a, card_b)>>

atomVars == <<atom, pattern, copied, edits, matched>>
textVars == <<oracle_text, nfrag>>
tierVars == <<clause, tier, ability, guess>>
parseVars == <<effects>>
sessionVars == <<row, card, kept, calls, score, summary>>
synergyVars == <<card_a, card_b, synergy>>
vars == <<atomVars, textVars, tierVars, parseVars, sessionVars, synergyVars>>

None == <<>>
Some(v) == <<v>>
IsNone(x) == x = <<>>
Val(x) == x[1]

-----------------------------------------------------------------------------
(* mtg_vocab.py                                                            *)

Source == {"ANY", "CARD", "RULES"}

Step == {"UNTAP", "UPKEEP", "DRAW_STEP", "BEGIN_COMBAT", "DECLARE_ATTACKERS",
         "DECLARE_BLOCKERS", "COMBAT_DAMAGE", "END_COMBAT", "MAIN1", "MAIN2",
         "END_STEP", "CLEANUP"}

Zone == {"HAND", "STACK", "BATTLEFIELD", "GRAVEYARD", "EXILE", "LIBRARY",
         "COMMAND"}

Cause == {"SACRIFICE", "DESTROY", "DAMAGE", "COST", "EFFECT", "RULES", "SBA",
          "CAST", "ACTIVATION", "TRIGGER", "OTHER"}

ObjKind == {"CARD", "TOKEN", "PERMANENT", "CREATURE", "ARTIFACT",
            "ENCHANTMENT", "LAND", "PLANESWALKER", "SPELL", "ABILITY"}

\* PermanentStatus is an IntFlag: one bit per flag, auto() numbers them 1,2,4..
TAPPED == 1
PHASED_OUT == 2
FACE_DOWN == 4
TRANSFORMED == 8
FLIPPED == 16
PermanentStatus == {TAPPED, PHASED_OUT, FACE_DOWN, TRANSFORMED, FLIPPED}

\* x & y on the non-negative integers, bit by bit
RECURSIVE BitAnd(_, _)
BitAnd(x, y) ==
    IF x = 0 \/ y = 0 THEN 0
    ELSE (x % 2) * (y % 2) + 2 * BitAnd(x \div 2, y \div 2)

\* x | y
RECURSIVE BitOr(_, _)
BitOr(x, y) ==
    IF x = 0 THEN y
    ELSE IF y = 0 THEN x
    ELSE (IF x % 2 = 1 \/ y % 2 = 1 THEN 1 ELSE 0)
         + 2 * BitOr(x \div 2, y \div 2)

\* the flags a mask holds
FlagsOf(mask) == {f \in PermanentStatus : BitAnd(mask, f) = f}

-----------------------------------------------------------------------------
(* card_atoms.py: the four atoms and their patterns                        *)

ZoneMove(from_zone, to_zone, obj, obj_types, controller, cause, source) ==
    [variant |-> "ZoneMove", from_zone |-> from_zone, to_zone |-> to_zone,
     obj |-> obj, obj_types |-> obj_types, controller |-> controller,
     cause |-> cause, source |-> source]

ResourceDelta(resource, delta, target, subtype, cause, source) ==
    [variant |-> "ResourceDelta", resource |-> resource, delta |-> delta,
     target |-> target, subtype |-> subtype, cause |-> cause,
     source |-> source]

StepChange(step, source) ==
    [variant |-> "StepChange", step |-> step, source |-> source]

StateDelta(target, set_mask, clear_mask, cause, source) ==
    [variant |-> "StateDelta", target |-> target, set_mask |-> set_mask,
     clear_mask |-> clear_mask, cause |-> cause, source |-> source]

\* every pattern field defaults to None
ZoneMovePattern ==
    [variant |-> "ZoneMovePattern", from_zone |-> None, to_zone |-> None,
     obj |-> None, controller |-> None, cause |-> None, source |-> None,
     require_type |-> None, forbid_type |-> None]

ResourceDeltaPattern ==
    [variant |-> "ResourceDeltaPattern", resource |-> None, delta |-> None,
     target |-> None, subtype |-> None, cause |-> None, source |-> None]

StepChangePattern ==
    [variant |-> "StepChangePattern", step |-> None, source |-> None]

StateDeltaPattern ==
    [variant |-> "StateDeltaPattern", target |-> None, set_mask |-> None,
     clear_mask |-> None, cause |-> None, source |-> None]

tap_atom(target, cause, source) ==
    StateDelta(Some(target), TAPPED, 0, cause, source)

untap_atom(target, cause, source) ==
    StateDelta(Some(target), 0, TAPPED, cause, source)

\* FieldAgrees without the "is None" escape: a wildcard never agrees
FieldAgreesNoWildcard(p, a, f) == ~IsNone(p[f]) /\ Val(p[f]) = a[f]

\* FieldAgrees comparing the pattern's value with itself
FieldAgreesSelfCompare(p, a, f) == IsNone(p[f]) \/ Val(p[f]) = Val(p[f])

\* pattern.f is None or pattern.f == atom.f, for a field the atom always has
FieldAgrees(p, a, f) == IsNone(p[f]) \/ Val(p[f]) = a[f]

\* the same for a field that is Optional in the atom as well
OptFieldAgrees(p, a, f) == IsNone(p[f]) \/ p[f] = a[f]

\* MaskAgrees by equality instead of the subset test
MaskAgreesByEquality(p, a, f) == IsNone(p[f]) \/ Val(p[f]) = a[f]

\* pattern.m is None or (atom.m & pattern.m) == pattern.m
MaskAgrees(p, a, f) == IsNone(p[f]) \/ BitAnd(a[f], Val(p[f])) = Val(p[f])

\* a fall-through that accepts
NoVariantAppliesAccepts(p, a) == TRUE

\* the last line of atom_matches: no pair of variants applied
NoVariantApplies(p, a) == FALSE

atom_matches(p, a) ==
    IF p.variant = "ZoneMovePattern" /\ a.variant = "ZoneMove" THEN
        IF ~IsNone(p.require_type) /\ Val(p.require_type) \notin a.obj_types
        THEN FALSE
        ELSE IF ~IsNone(p.forbid_type) /\ Val(p.forbid_type) \in a.obj_types
        THEN FALSE
        ELSE /\ FieldAgrees(p, a, "from_zone")
             /\ FieldAgrees(p, a, "to_zone")
             /\ FieldAgrees(p, a, "obj")
             /\ OptFieldAgrees(p, a, "controller")
             /\ FieldAgrees(p, a, "cause")
             /\ FieldAgrees(p, a, "source")
    ELSE IF p.variant = "ResourceDeltaPattern" /\ a.variant = "ResourceDelta"
    THEN /\ FieldAgrees(p, a, "resource")
         /\ FieldAgrees(p, a, "delta")
         /\ OptFieldAgrees(p, a, "target")
         /\ OptFieldAgrees(p, a, "subtype")
         /\ FieldAgrees(p, a, "cause")
         /\ FieldAgrees(p, a, "source")
    ELSE IF p.variant = "StepChangePattern" /\ a.variant = "StepChange"
    THEN /\ FieldAgrees(p, a, "step")
         /\ FieldAgrees(p, a, "source")
    ELSE IF p.variant = "StateDeltaPattern" /\ a.variant = "StateDelta"
    THEN /\ OptFieldAgrees(p, a, "target")
         /\ MaskAgrees(p, a, "set_mask")
         /\ MaskAgrees(p, a, "clear_mask")
         /\ FieldAgrees(p, a, "cause")
         /\ FieldAgrees(p, a, "source")
    ELSE NoVariantApplies(p, a)

-----------------------------------------------------------------------------
(* Python str operations, on TLA+ strings                                  *)

Char(s, i) == SubSeq(s, i, i)

UpperLetters == "ABCDEFGHIJKLMNOPQRSTUVWXYZ"
LowerLetters == "abcdefghijklmnopqrstuvwxyz"
Digits == "0123456789"

CharsOf(s) == {Char(s, i) : i \in 1..Len(s)}

LowerTable ==
    LET
        \* c.lower() for one character
        LowerChar(c) ==
            IF c \in CharsOf(UpperLetters)
            THEN Char(LowerLetters, CHOOSE i \in 1..26 : Char(UpperLetters, i) = c)
            ELSE c
    IN
                  [c \in CharsOf(UpperLetters) |-> LowerChar(c)]

\* s.lower(), by halves
RECURSIVE lower(_)
lower(s) ==
    IF Len(s) = 0 THEN ""
    ELSE IF Len(s) = 1
    THEN (IF s \in DOMAIN LowerTable THEN LowerTable[s] ELSE s)
    ELSE LET h == Len(s) \div 2
         IN  lower(SubSeq(s, 1, h)) \o lower(SubSeq(s, h + 1, Len(s)))

\* s.startswith(p)
startswith(s, p) == Len(p) <= Len(s) /\ SubSeq(s, 1, Len(p)) = p

\* s.endswith(p)
endswith(s, p) ==
    Len(p) <= Len(s) /\ SubSeq(s, Len(s) - Len(p) + 1, Len(s)) = p

\* p occurs in s at index i
OccursAt(s, p, i) ==
    i >= 1 /\ i + Len(p) - 1 <= Len(s) /\ SubSeq(s, i, i + Len(p) - 1) = p

\* p in s
contains(s, p) == \E i \in 1..(Len(s) - Len(p) + 1) : OccursAt(s, p, i)

\* s.find(p) + 1: the index of the first occurrence, 0 when there is none
find(s, p) ==
    LET hits == {i \in 1..(Len(s) - Len(p) + 1) : OccursAt(s, p, i)}
    IN  IF hits = {} THEN 0 ELSE CHOOSE i \in hits : \A j \in hits : i <= j

\* str.isspace() for one character
IsSpace(c) == c \in {" ", "\n", "\t", "\r"}

\* the elements of a set of positive integers as a sequence, ascending
Ascending(S) ==
    IF S = {} THEN <<>>
    ELSE LET greatest == CHOOSE x \in S : \A y \in S : y <= x
         IN  SelectSeq([i \in 1..greatest |-> i], LAMBDA i : i \in S)

\* s holds a character that is not whitespace
HasNonSpace(s) == \E i \in 1..Len(s) : ~IsSpace(Char(s, i))

\* the index of the first and of the last character that is not whitespace
FirstNonSpace(s) ==
    CHOOSE i \in 1..Len(s) :
        ~IsSpace(Char(s, i)) /\ \A j \in 1..(i - 1) : IsSpace(Char(s, j))

LastNonSpace(s) ==
    CHOOSE i \in 1..Len(s) :
        ~IsSpace(Char(s, i)) /\ \A j \in (i + 1)..Len(s) : IsSpace(Char(s, j))

strip(s) ==
    IF HasNonSpace(s) THEN SubSeq(s, FirstNonSpace(s), LastNonSpace(s))
    ELSE ""

\* s.split(sep, 1) when sep occurs in s: the text before and after the first
\* occurrence
SplitFirst(s, sep) ==
    LET i == find(s, sep)
    IN  <<SubSeq(s, 1, i - 1), SubSeq(s, i + Len(sep), Len(s))>>

\* the pieces of s between the characters of seps: s.split(sep) for a
\* one-character sep, re.split on a character class up to empty pieces
SplitOn(s, seps) ==
    LET P == {i \in 1..Len(s) : Char(s, i) \in seps}
        at == Ascending(P)
        n == Len(at)
        first(k) == IF k = 1 THEN 1 ELSE at[k - 1] + 1
        last(k) == IF k = n + 1 THEN Len(s) ELSE at[k] - 1
    IN  [k \in 1..(n + 1) |-> SubSeq(s, first(k), last(k))]

\* [x.strip() for x in pieces if x.strip()]
StripAndDropBlank(pieces) ==
    LET stripped == [i \in 1..Len(pieces) |-> strip(pieces[i])]
    IN  SelectSeq(stripped, LAMBDA x : x # "")

-----------------------------------------------------------------------------
(* OracleMine.py: clause splitter and tier heuristics                      *)

\* re.split(r"[.\n;]+", text), stripped, blanks dropped
split_clauses(text) ==
    IF text = "" THEN <<>>
    ELSE StripAndDropBlank(SplitOn(text, {".", "\n", ";"}))

is_replacement_like(c) ==
    LET cl == lower(c)
        has_instead_or_prevent ==
            contains(cl, " instead") \/ contains(cl, "prevent ")
        has_if_when_would_as ==
            \/ contains(cl, " if ")
            \/ startswith(cl, "if ")
            \/ contains(cl, " whenever ")
            \/ startswith(cl, "whenever ")
            \/ contains(cl, " when ")
            \/ startswith(cl, "when ")
            \/ contains(cl, " would ")
            \/ startswith(cl, "as ")
    IN  has_instead_or_prevent /\ has_if_when_would_as

is_triggered_like(c) ==
    LET cl == lower(c)
    IN  \/ startswith(cl, "whenever ")
        \/ startswith(cl, "when ")
        \/ startswith(cl, "at the beginning")
        \/ contains(cl, " whenever ")
        \/ contains(cl, " at the beginning of ")
        \/ contains(cl, "at end of combat")
        \/ contains(cl, "at the end of combat")

is_activated_like(c) ==
    LET cost_markers ==
            {"tap ", "untap ", "discard a card", "discard a creature card",
             "sacrifice a", "sacrifice another", "pay {n} life", "pay {cost}",
             "exile a", "exile this", "return", "remove a +1/+1 counter"}
    IN
        IF ~contains(c, ":") THEN FALSE
        ELSE LET cost_part == SplitFirst(c, ":")[1]
                 cl_cost == lower(cost_part)
             IN  IF contains(cost_part, "{") THEN TRUE
                 ELSE \E m \in cost_markers : contains(cl_cost, m)

\* classify_tier with the triggered test ahead of the replacement test
classify_tier_triggered_first(c) ==
    LET cl == strip(c)
    IN  IF cl = "" THEN "none"
        ELSE IF is_triggered_like(cl) THEN "triggered"
        ELSE IF is_replacement_like(cl) THEN "replacement"
        ELSE IF is_activated_like(cl) THEN "activated"
        ELSE "static_or_other"

\* Order matters: replacement > triggered > activated > static/other
classify_tier(c) ==
    LET cl == strip(c)
    IN  IF cl = "" THEN "none"
        ELSE IF is_replacement_like(cl) THEN "replacement"
        ELSE IF is_triggered_like(cl) THEN "triggered"
        ELSE IF is_activated_like(cl) THEN "activated"
        ELSE "static_or_other"

-----------------------------------------------------------------------------
(* card_effects.py: ability splitter and _guess_effect_type                *)

\* the alternatives of TRIGGER_PREFIX_RE, in the order the regex tries them
TRIGGER_PREFIXES ==
    <<"when", "whenever", "at the beginning of", "at the start of", "at ">>

\* TRIGGER_PREFIX_RE.match(text).end(): the length of the first alternative
\* that text starts with (ignoring case), 0 when there is no match
TriggerPrefixEnd(text) ==
    LET tl == lower(text)
        hits == {i \in 1..Len(TRIGGER_PREFIXES) :
                    startswith(tl, TRIGGER_PREFIXES[i])}
    IN  IF hits = {} THEN 0
        ELSE Len(TRIGGER_PREFIXES[CHOOSE i \in hits :
                                    \A j \in hits : i <= j])

\* the length of the run of whitespace that starts at index i of s
SpaceRun(s, i) ==
    IF \A j \in i..Len(s) : IsSpace(Char(s, j)) THEN Len(s) - i + 1
    ELSE (CHOOSE j \in i..Len(s) :
            ~IsSpace(Char(s, j)) /\ \A k \in i..(j - 1) : IsSpace(Char(s, k)))
         - i

RECURSIVE ConcatAll(_)
ConcatAll(seqs) ==
    IF seqs = <<>> THEN <<>> ELSE Head(seqs) \o ConcatAll(Tail(seqs))

_split_abilities(text) ==
    LET
        \* re.split(r"\.\s+", line): the pieces between the matches of a period
        \* followed by whitespace
        SplitSentences(s) ==
            LET P == {i \in 1..Len(s) : Char(s, i) = "." /\ SpaceRun(s, i + 1) > 0}
                at == Ascending(P)
                n == Len(at)
                first(k) ==
                    IF k = 1 THEN 1
                    ELSE at[k - 1] + 1 + SpaceRun(s, at[k - 1] + 1)
                last(k) == IF k = n + 1 THEN Len(s) ELSE at[k] - 1
            IN  [k \in 1..(n + 1) |-> SubSeq(s, first(k), last(k))]
        \* the abilities one line contributes
        LineAbilities(line) ==
            IF contains(line, ":") \/ TriggerPrefixEnd(line) > 0
            THEN <<strip(line)>>
            ELSE StripAndDropBlank(SplitSentences(line))
    IN
        IF text = "" THEN <<>>
        ELSE LET lines == StripAndDropBlank(SplitOn(text, {"\n"}))
             IN  ConcatAll([i \in 1..Len(lines) |-> LineAbilities(lines[i])])

\* "If X would ..., instead ..."
GuessReplacement(c) ==
    LET cl == lower(c)
    IN  startswith(cl, "if ") /\ contains(cl, " would ")
            /\ contains(cl, " instead")

GuessTriggered(c) ==
    LET cl == lower(c)
    IN  \/ startswith(cl, "whenever ")
        \/ startswith(cl, "when ")
        \/ startswith(cl, "at the beginning")

\* "[cost stuff]: [effect]"
GuessActivated(c) ==
    /\ contains(c, ":")
    /\ LET left == lower(SplitFirst(c, ":")[1])
       IN  \E m \in {"{", "sacrifice", "discard", "exile", "tap", "untap",
                     "pay"} : contains(left, m)

\* _guess_effect_type with a replacement test of one token, the leading "if "
_guess_effect_type_if_only(c) ==
    IF startswith(lower(c), "if ") THEN "replacement"
    ELSE IF GuessTriggered(c) THEN "triggered"
    ELSE IF GuessActivated(c) THEN "activated"
    ELSE "static"

\* _guess_effect_type with the activated test ahead of the triggered test
_guess_effect_type_activated_first(c) ==
    IF GuessReplacement(c) THEN "replacement"
    ELSE IF GuessActivated(c) THEN "activated"
    ELSE IF GuessTriggered(c) THEN "triggered"
    ELSE "static"

_guess_effect_type(c) ==
    IF GuessReplacement(c) THEN "replacement"
    ELSE IF GuessTriggered(c) THEN "triggered"
    ELSE IF GuessActivated(c) THEN "activated"
    ELSE "static"

-----------------------------------------------------------------------------
(* More Python str and re operations                                       *)

UpperTable ==
    LET UpperChar(c) ==
            IF c \in CharsOf(LowerLetters)
            THEN Char(UpperLetters, CHOOSE i \in 1..26 : Char(LowerLetters, i) = c)
            ELSE c
    IN
                  [c \in CharsOf(LowerLetters) |-> UpperChar(c)]

\* s.upper(), by halves
RECURSIVE upper(_)
upper(s) ==
    IF Len(s) = 0 THEN ""
    ELSE IF Len(s) = 1
    THEN (IF s \in DOMAIN UpperTable THEN UpperTable[s] ELSE s)
    ELSE LET h == Len(s) \div 2
         IN  upper(SubSeq(s, 1, h)) \o upper(SubSeq(s, h + 1, Len(s)))

DigitChars == CharsOf(Digits)

\* s.isdigit()
isdigit(s) == Len(s) > 0 /\ \A i \in 1..Len(s) : Char(s, i) \in DigitChars

DigitValue(c) == (CHOOSE i \in 1..10 : Char(Digits, i) = c) - 1

\* int(s) for a string of digits
RECURSIVE int(_)
int(s) ==
    IF Len(s) = 0 THEN 0
    ELSE 10 * int(SubSeq(s, 1, Len(s) - 1)) + DigitValue(Char(s, Len(s)))

\* the characters \w matches
WordChars ==
    CharsOf(UpperLetters) \cup CharsOf(LowerLetters) \cup DigitChars \cup {"_"}

\* the character at index i is a \w character; FALSE outside the string
IsWordAt(s, i) == i >= 1 /\ i <= Len(s) /\ Char(s, i) \in WordChars

\* \b holds in front of index i (i = Len(s) + 1: at the end of the string)
WordBoundary(s, i) == IsWordAt(s, i - 1) # IsWordAt(s, i)

\* the indices where \bw\b matches in s, w made of \w characters
WordHits(s, w) ==
    {i \in 1..(Len(s) - Len(w) + 1) :
        /\ OccursAt(s, w, i)
        /\ WordBoundary(s, i)
        /\ WordBoundary(s, i + Len(w))}

\* s.split(): the maximal runs of characters that are not whitespace
split(s) ==
    LET starts == Ascending({i \in 1..Len(s) :
                                ~IsSpace(Char(s, i))
                                    /\ (i = 1 \/ IsSpace(Char(s, i - 1)))})
        ends == Ascending({i \in 1..Len(s) :
                              ~IsSpace(Char(s, i))
                                  /\ (i = Len(s) \/ IsSpace(Char(s, i + 1)))})
    IN  [k \in 1..Len(starts) |-> SubSeq(s, starts[k], ends[k])]

\* sep.join(words)
RECURSIVE join(_, _)
join(sep, words) ==
    IF words = <<>> THEN ""
    ELSE IF Len(words) = 1 THEN words[1]
    ELSE words[1] \o sep \o join(sep, Tail(words))

\* s.replace(c, r) for a one-character c, by halves
RECURSIVE replace(_, _, _)
replace(s, c, r) ==
    IF Len(s) = 0 THEN ""
    ELSE IF Len(s) = 1 THEN (IF s = c THEN r ELSE s)
    ELSE LET h == Len(s) \div 2
         IN  replace(SubSeq(s, 1, h), c, r)
                \o replace(SubSeq(s, h + 1, Len(s)), c, r)

\* the first index from i on where s holds character c, 0 when there is none
IndexFrom(s, c, i) ==
    LET hits == {j \in i..Len(s) : Char(s, j) = c}
    IN  IF hits = {} THEN 0 ELSE CHOOSE j \in hits : \A k \in hits : j <= k

\* the matches of \{[^}]+\} in s from index i on, left to right, as
\* <<index of the opening brace, index of the closing brace>>
RECURSIVE BraceMatches(_, _)
BraceMatches(s, i) ==
    LET Closed(open, close) ==
            IF close = 0 THEN <<>>
            ELSE IF close = open + 1 THEN BraceMatches(s, open + 1)
            ELSE <<<<open, close>>>> \o BraceMatches(s, close + 1)
        Opened(open) ==
            IF open = 0 THEN <<>> ELSE Closed(open, IndexFrom(s, "}", open + 1))
    IN  Opened(IndexFrom(s, "{", i))

-----------------------------------------------------------------------------
(* card_effects.py: the action micro-grammar                               *)

VERB_LEXICON ==
    {"draw", "create", "gain", "lose", "deal", "destroy", "exile",
     "sacrifice", "return", "untap", "tap", "search", "reveal",
     "put", "mill", "copy", "add", "fight", "cast", "play",
     "scry", "proliferate", "remove", "counter"}

QUANTITY_WORDS ==
    {"a", "an", "one", "two", "three", "four", "five", "six", "x"}

OBJECT_WORDS ==
    {"damage", "card", "cards", "token", "tokens", "life",
     "counter", "counters", "land", "lands", "creature", "creatures",
     "permanent", "permanents", "spell", "spells", "mana", "library"}

TARGET_MARKERS == {"target", "any", "each", "that", "those", "it", "this"}

\* ACTION_LIBRARY, keyed by <<verb, object>>
ACTION_LIBRARY ==
    (<<"draw", "card">> :> "DRAW_CARD")
    @@ (<<"draw", "cards">> :> "DRAW_CARD")
    @@ (<<"create", "token">> :> "CREATE_TOKEN")
    @@ (<<"create", "tokens">> :> "CREATE_TOKEN")
    @@ (<<"deal", "damage">> :> "DEAL_DAMAGE")
    @@ (<<"gain", "life">> :> "GAIN_LIFE")
    @@ (<<"lose", "life">> :> "LOSE_LIFE")
    @@ (<<"add", "mana">> :> "ADD_MANA")
    @@ (<<"put", "counter">> :> "ADD_COUNTER")
    @@ (<<"put", "counters">> :> "ADD_COUNTER")
    @@ (<<"remove", "counter">> :> "REMOVE_COUNTER")
    @@ (<<"remove", "counters">> :> "REMOVE_COUNTER")
    @@ (<<"sacrifice", "creature">> :> "SACRIFICE_CREATURE")
    @@ (<<"sacrifice", "permanent">> :> "SACRIFICE_PERMANENT")
    @@ (<<"destroy", "creature">> :> "DESTROY_CREATURE")
    @@ (<<"destroy", "permanent">> :> "DESTROY_PERMANENT")
    @@ (<<"exile", "creature">> :> "EXILE_CREATURE")
    @@ (<<"exile", "permanent">> :> "EXILE_PERMANENT")
    @@ (<<"return", "creature">> :> "RETURN_CREATURE")
    @@ (<<"return", "card">> :> "RETURN_CARD")
    @@ (<<"mill", "card">> :> "MILL_CARD")
    @@ (<<"mill", "cards">> :> "MILL_CARD")
    @@ (<<"search", "library">> :> "SEARCH_LIBRARY")
    @@ (<<"cast", "spell">> :> "CAST_SPELL")

\* clause.replace(",", " , ").replace(":", " : ").replace(".", " . ").split()
_simple_tokens(c) ==
    split(replace(replace(replace(c, ",", " , "), ":", " : "), ".", " . "))

ActionUnit(verb, quantity, obj, target, kind, text_span) ==
    [verb |-> verb, quantity |-> quantity, obj |-> obj, target |-> target,
     kind |-> kind, text_span |-> text_span]

Min(a, b) == IF a <= b THEN a ELSE b
Max(a, b) == IF a >= b THEN a ELSE b

\* the smallest element of a non-empty set of integers
Least(S) == CHOOSE x \in S : \A y \in S : x <= y

\* UnitQuantity without WORD_TO_INT: every quantity word counts as 1
UnitQuantityWordsAsOne(ltoks, j) ==
    IF j > Len(ltoks) THEN <<None, j>>
    ELSE LET qtok == ltoks[j]
         IN  IF isdigit(qtok) THEN <<Some(int(qtok)), j + 1>>
             ELSE IF qtok \in QUANTITY_WORDS
             THEN <<(IF qtok = "x" THEN None ELSE Some(1)), j + 1>>
             ELSE <<None, j>>

\* step 1 of the loop body: <<quantity, index of the token after it>> for a
\* verb whose next token is token j
UnitQuantity(ltoks, j) ==
    LET WORD_TO_INT ==
            ("one" :> 1) @@ ("two" :> 2) @@ ("three" :> 3) @@ ("four" :> 4)
            @@ ("five" :> 5) @@ ("six" :> 6)
    IN
        IF j > Len(ltoks) THEN <<None, j>>
        ELSE LET qtok == ltoks[j]
             IN  IF isdigit(qtok) THEN <<Some(int(qtok)), j + 1>>
                 ELSE IF qtok \in QUANTITY_WORDS
                 THEN <<(IF qtok = "x" THEN None
                         ELSE IF qtok \in DOMAIN WORD_TO_INT
                         THEN Some(WORD_TO_INT[qtok])
                         ELSE Some(1)),
                        j + 1>>
                 ELSE <<None, j>>

\* card_name is "" when the caller gives None
extract_action_units(c, card_name) ==
    LET
        \* ACTION_LIBRARY.get(key)
        ActionKind(key) ==
            IF key \in DOMAIN ACTION_LIBRARY THEN Some(ACTION_LIBRARY[key]) ELSE None
        \* step 2: <<object named within five tokens from token j, index k the scan
        \* stops at>>
        UnitObjectScan(ltoks, j) ==
            LET n == Len(ltoks)
                found == {k \in j..Min(n, j + 4) : ltoks[k] \in OBJECT_WORDS}
            IN  IF found = {} THEN <<None, Max(j, Min(n, j + 4) + 1)>>
                ELSE <<Some(ltoks[Least(found)]), Least(found) + 1>>
        \* the defaults for an object that is implied, not named
        UnitObject(named, verb, lc) ==
            IF ~IsNone(named) THEN named
            ELSE IF verb = "deal" THEN Some("damage")
            ELSE IF verb \in {"gain", "lose"} /\ contains(lc, "life") THEN Some("life")
            ELSE IF verb = "draw" THEN Some("card")
            ELSE None
        \* the target phrase that starts at a marker token
        TargetOfWindow(window) ==
            IF startswith(window, "any target") THEN Some("any target")
            ELSE IF startswith(window, "target creature") THEN Some("target creature")
            ELSE IF startswith(window, "target opponent") THEN Some("target opponent")
            ELSE IF startswith(window, "target player") THEN Some("target player")
            ELSE IF startswith(window, "each opponent") THEN Some("each opponent")
            ELSE IF startswith(window, "each player") THEN Some("each player")
            ELSE None
        \* step 3: the target, from self references or from the first marker token
        \* at index k or later
        UnitTarget(toks, ltoks, k, lc, name_l) ==
            IF name_l # "" /\ contains(lc, "from " \o name_l) THEN Some("self")
            ELSE IF \/ contains(lc, "from this creature")
                    \/ contains(lc, "from it")
                    \/ contains(lc, "this creature")
            THEN Some("self")
            ELSE LET n == Len(toks)
                     marks == {t \in k..n : ltoks[t] \in TARGET_MARKERS}
                 IN  IF marks = {} THEN None
                     ELSE LET t_idx == Least(marks)
                              window ==
                                  lower(join(" ", SubSeq(toks, t_idx,
                                                         Min(n, t_idx + 3))))
                          IN  TargetOfWindow(window)
        \* step 4: the canonical kind, with the singular form as fallback
        UnitKind(verb, obj) ==
            IF IsNone(obj) THEN None
            ELSE IF <<verb, Val(obj)>> \in DOMAIN ACTION_LIBRARY
            THEN Some(ACTION_LIBRARY[<<verb, Val(obj)>>])
            ELSE LET o == Val(obj)
                     singular ==
                         IF endswith(o, "s") THEN SubSeq(o, 1, Len(o) - 1) ELSE o
                 IN  ActionKind(<<verb, singular>>)
        \* the unit of the verb at token i, with obj = None when the verb is noise
        UnitAt(toks, ltoks, i, ability_text, lc, name_l) ==
            LET OfObject(verb, quantity, obj, target) ==
                    ActionUnit(verb, quantity, obj, target, UnitKind(verb, obj),
                               ability_text)
                OfScan(verb, quantity, scan) ==
                    OfObject(verb, quantity, UnitObject(scan[1], verb, lc),
                             UnitTarget(toks, ltoks, scan[2], lc, name_l))
                OfQuantity(verb, q) ==
                    OfScan(verb, q[1], UnitObjectScan(ltoks, q[2]))
            IN  OfQuantity(ltoks[i], UnitQuantity(ltoks, i + 1))
        \* the units of the verbs at the token indices `verbs`, noise dropped
        UnitsAt(toks, ltoks, verbs) ==
            SelectSeq([k \in 1..Len(verbs) |->
                          UnitAt(toks, ltoks, verbs[k], c, lower(c),
                                 lower(card_name))],
                      LAMBDA u : ~IsNone(u.obj))
        \* for i, tok in enumerate(ltoks): if tok not in VERB_LEXICON: continue
        UnitsOf(toks, ltoks) ==
            UnitsAt(toks, ltoks,
                    Ascending({i \in 1..Len(ltoks) : ltoks[i] \in VERB_LEXICON}))
        \* ltoks = [t.lower() for t in toks]
        UnitsOfTokens(toks) ==
            UnitsOf(toks, [i \in 1..Len(toks) |-> lower(toks[i])])
    IN
        UnitsOfTokens(_simple_tokens(c))

\* re.search(rf"\b{subj}\b[^\.]*\b{verb}\w*\b[^\.]*\b{obj}\b", t): the
\* subject as a word, then the verb at the start of a word, then the object
\* as a word after the end of the verb's word, with no period from the end
\* of the subject to the object
_subject_verb_object(text, subject, verb_root, obj_word) ==
    LET
        \* " ".join(text.lower().split())
        NormalizeSpaces(s) == join(" ", split(lower(s)))
        \* the search in the normalized text t
        Found(t, subj, verb, obj) ==
            LET WordEnd(j) ==
                    Least({e \in (j + Len(verb))..(Len(t) + 1) : ~IsWordAt(t, e)})
                NoPeriod(a, b) == \A p \in a..(b - 1) : Char(t, p) # "."
            IN  \E i \in WordHits(t, subj) :
                    \E j \in {v \in 1..(Len(t) - Len(verb) + 1) :
                                 OccursAt(t, verb, v) /\ WordBoundary(t, v)} :
                        \E k \in WordHits(t, obj) :
                            /\ j >= i + Len(subj)
                            /\ k >= WordEnd(j)
                            /\ NoPeriod(i + Len(subj), k)
    IN
        Found(NormalizeSpaces(text), lower(subject), lower(verb_root),
              lower(obj_word))

-----------------------------------------------------------------------------
(* card_effects.py: atom parsers                                           *)

\* _MTG_SYMBOL_RE.findall(text): the symbols without their braces
_mana_symbols(text) ==
    LET Inside(ms) ==
            [k \in 1..Len(ms) |-> SubSeq(text, ms[k][1] + 1, ms[k][2] - 1)]
    IN  Inside(BraceMatches(text, 1))

\* [s for s in syms if s.upper() not in ("T", "Q")]
WithoutTapSymbols(syms) ==
    SelectSeq(syms, LAMBDA s : upper(s) \notin {"T", "Q"})

\* what one symbol adds to the total
SymbolCost(s) ==
    LET CostOf(u) ==
            IF u \in {"T", "Q"} THEN 0
            ELSE IF isdigit(u) THEN int(u)
            ELSE IF u \in {"X", "Y", "Z"} THEN 0
            ELSE 1
    IN  CostOf(strip(upper(s)))

RECURSIVE _mana_cost_from_symbols(_)
_mana_cost_from_symbols(symbols) ==
    IF symbols = <<>> THEN 0
    ELSE SymbolCost(Head(symbols)) + _mana_cost_from_symbols(Tail(symbols))

\* None, or <<amount, subtype>> as Some(<<amount, subtype>>)
_mana_gain_from_add_clause(text) ==
    LET
        \* the matches of \s+or\s+ (ignoring case) in s from index i on, as
        \* <<index of the first character, index of the last character>>
        RECURSIVE OrMatches(_, _)
        OrMatches(s, i) ==
            LET \* "or" at index m, then whitespace
                OrAt(m) ==
                    /\ m + 1 <= Len(s)
                    /\ lower(SubSeq(s, m, m + 1)) = "or"
                    /\ SpaceRun(s, m + 2) > 0
                \* the match from index a to index z, then the later matches
                Span(a, z) == <<<<a, z>>>> \o OrMatches(s, z + 1)
                SpanOver(a, m) == Span(a, m + 1 + SpaceRun(s, m + 2))
                SpanFrom(a) == SpanOver(a, a + SpaceRun(s, a))
                First(starts) ==
                    IF starts = {} THEN <<>> ELSE SpanFrom(Least(starts))
            IN  First({a \in i..Len(s) :
                          IsSpace(Char(s, a)) /\ OrAt(a + SpaceRun(s, a))})
        RECURSIVE MaxOf(_)
        MaxOf(amts) ==
            IF Len(amts) = 1 THEN amts[1] ELSE Max(amts[1], MaxOf(Tail(amts)))
        \* re.split(r"\s+or\s+", text, flags=re.IGNORECASE)
        SplitOnOr(s) ==
            LET Between(ms) ==
                    [k \in 1..(Len(ms) + 1) |->
                        SubSeq(s, IF k = 1 THEN 1 ELSE ms[k - 1][2] + 1,
                                  IF k = Len(ms) + 1 THEN Len(s) ELSE ms[k][1] - 1)]
            IN  Between(OrMatches(s, 1))
        \* the non-empty symbol lists of the parts, without {T}
        Options(parts) ==
            SelectSeq([k \in 1..Len(parts) |->
                          WithoutTapSymbols(_mana_symbols(parts[k]))],
                      LAMBDA mana_syms : mana_syms # <<>>)
        \* (max(option_amts), "|".join(option_subs))
        Gain(options) ==
            IF options = <<>> THEN None
            ELSE Some(<<MaxOf([k \in 1..Len(options) |->
                                 _mana_cost_from_symbols(options[k])]),
                        join("|", [k \in 1..Len(options) |->
                                      join("", options[k])])>>)
    IN
        IF text = "" THEN None
        ELSE IF ~contains(lower(text), "add") \/ ~contains(text, "{") THEN None
        ELSE Gain(Options(SplitOnOr(text)))

\* "+1/+1" if "+1/+1" in cl else None
PlusOneSubtype(cl) == IF contains(cl, "+1/+1") THEN Some("+1/+1") ELSE None

_parse_result_atoms(result_text, card_name) ==
    LET
        \* re.search(r"\bw\b", s) is not None
        HasWord(s, w) == WordHits(s, w) # {}
        \* act.quantity or 1
        QuantityOrOne(act) ==
            IF IsNone(act.quantity) \/ Val(act.quantity) = 0 THEN 1
            ELSE Val(act.quantity)
        \* n copies of x
        Repeat(x, n) == [k \in 1..n |-> x]
        \* the atoms one ActionUnit of a result adds
        ResultAtomsOfUnit(act, cl) ==
            IF act.kind = Some("DRAW_CARD")
            THEN Repeat(ZoneMove("LIBRARY", "HAND", "CARD", {}, Some("YOU"),
                                 "EFFECT", "CARD"),
                        QuantityOrOne(act))
            ELSE IF act.kind = Some("CREATE_TOKEN")
            THEN Repeat(ZoneMove("COMMAND", "BATTLEFIELD", "TOKEN", {}, Some("YOU"),
                                 "EFFECT", "CARD"),
                        QuantityOrOne(act))
            ELSE IF act.kind = Some("GAIN_LIFE")
            THEN <<ResourceDelta("life", QuantityOrOne(act), Some("YOU"), None,
                                 "EFFECT", "CARD")>>
            ELSE IF act.kind = Some("LOSE_LIFE")
            THEN <<ResourceDelta("life", 0 - QuantityOrOne(act),
                                 Some(IF contains(cl, "opponent") THEN "OPPONENT"
                                      ELSE "YOU"),
                                 None, "EFFECT", "CARD")>>
            ELSE IF act.kind = Some("DEAL_DAMAGE")
            THEN <<ResourceDelta("damage", QuantityOrOne(act),
                                 Some(IF IsNone(act.target) THEN "ANY"
                                      ELSE Val(act.target)),
                                 None, "EFFECT", "CARD")>>
            ELSE IF act.kind = Some("ADD_COUNTER")
            THEN <<ResourceDelta("counter", QuantityOrOne(act), Some("SELF"),
                                 PlusOneSubtype(cl), "EFFECT", "CARD")>>
            ELSE IF act.kind = Some("REMOVE_COUNTER")
            THEN <<ResourceDelta("counter", 0 - QuantityOrOne(act), Some("SELF"),
                                 PlusOneSubtype(cl), "EFFECT", "CARD")>>
            ELSE IF act.kind = Some("ADD_MANA")
            THEN <<ResourceDelta("mana", QuantityOrOne(act), Some("YOU"), None,
                                 "EFFECT", "CARD")>>
            ELSE <<>>
        \* the atoms of the lowered text cl, of the mana gain mg of the text and
        \* of the ActionUnits of the text
        Atoms(cl, mg, units) ==
            (IF IsNone(mg) THEN <<>>
             ELSE <<ResourceDelta("mana", Val(mg)[1], Some("YOU"),
                                  Some(Val(mg)[2]), "EFFECT", "CARD")>>)
            \o ConcatAll([k \in 1..Len(units) |->
                             ResultAtomsOfUnit(units[k], cl)])
            \o (IF HasWord(cl, "untap")
                THEN <<untap_atom("TARGET", "EFFECT", "CARD")>> ELSE <<>>)
            \o (IF HasWord(cl, "tap")
                THEN <<tap_atom("TARGET", "EFFECT", "CARD")>> ELSE <<>>)
    IN
        Atoms(lower(result_text), _mana_gain_from_add_clause(result_text),
              extract_action_units(result_text, card_name))

_parse_cost_atoms(cost_text) ==
    LET
        \* the length of the run of digits that starts at index i of s
        DigitRun(s, i) ==
            IF \A j \in i..Len(s) : Char(s, j) \in DigitChars THEN Len(s) - i + 1
            ELSE Least({j \in i..Len(s) : Char(s, j) \notin DigitChars}) - i
        \* re.search(r"pay\s+(\d+)\s+life", cl): the indices where "pay", whitespace,
        \* digits, whitespace and "life" follow one another
        PayLifeHits(cl) ==
            LET LifeAfter(d, e) ==
                    /\ e > d
                    /\ SpaceRun(cl, e) > 0
                    /\ OccursAt(cl, "life", e + SpaceRun(cl, e))
                DigitsAt(d) == LifeAfter(d, d + DigitRun(cl, d))
            IN  {i \in 1..Len(cl) :
                    /\ OccursAt(cl, "pay", i)
                    /\ SpaceRun(cl, i + 3) > 0
                    /\ DigitsAt(i + 3 + SpaceRun(cl, i + 3))}
        \* int(m.group(1)) if m else 1
        PayLifeAmount(cl) ==
            LET NumberAt(d) == int(SubSeq(cl, d, d + DigitRun(cl, d) - 1))
                AmountAt(i) == NumberAt(i + 3 + SpaceRun(cl, i + 3))
                AmountOf(hits) == IF hits = {} THEN 1 ELSE AmountAt(Least(hits))
            IN  AmountOf(PayLifeHits(cl))
        when(cond, a) == IF cond THEN <<a>> ELSE <<>>
        \* the atoms of the lowered text cl and of the mana cost of the text
        Atoms(cl, mana_cost) ==
            when(contains(cl, "{t}"), tap_atom("SELF", "COST", "CARD"))
            \o when(contains(cl, "{q}"), untap_atom("SELF", "COST", "CARD"))
            \o when(mana_cost # 0,
                    ResourceDelta("mana", 0 - mana_cost, Some("YOU"), None,
                                  "COST", "CARD"))
            \o when(contains(cl, "sacrifice"),
                    ZoneMove("BATTLEFIELD", "GRAVEYARD", "PERMANENT", {},
                             Some("YOU"), "SACRIFICE", "CARD"))
            \o when(contains(cl, "discard") /\ contains(cl, "card"),
                    ZoneMove("HAND", "GRAVEYARD", "CARD", {}, Some("YOU"),
                             "COST", "CARD"))
            \o when(contains(cl, "pay") /\ contains(cl, "life"),
                    ResourceDelta("life", 0 - PayLifeAmount(cl), Some("YOU"),
                                  None, "COST", "CARD"))
            \o when(contains(cl, "remove") /\ contains(cl, "counter"),
                    ResourceDelta("counter", -1, Some("SELF"),
                                  PlusOneSubtype(cl), "COST", "CARD"))
    IN
        Atoms(lower(cost_text),
              _mana_cost_from_symbols(WithoutTapSymbols(_mana_symbols(cost_text))))

-----------------------------------------------------------------------------
(* card_effects.py: EventTag parsers                                       *)

EventTag(kind, resource, scope, step) ==
    [kind |-> kind, resource |-> resource, scope |-> scope, step |-> step]

\* ev(kind, res, scope) with the default step=None
ev(kind, res, scope) == EventTag(kind, res, scope, None)

\* the set {tag} when cond holds, the empty set otherwise
TagIf(cond, tag) == IF cond THEN {tag} ELSE {}

_infer_actor_tags(cl) ==
    (IF startswith(cl, "you ") \/ contains(cl, " you ")
            \/ contains(cl, " your ")
     THEN {"YOU"} ELSE {})
    \cup (IF contains(cl, "each opponent") THEN {"EACH_OPPONENT"} ELSE {})
    \cup (IF contains(cl, "each player") THEN {"EACH_PLAYER"} ELSE {})
    \cup (IF contains(cl, "target opponent") \/ contains(cl, "an opponent")
          THEN {"OPPONENT"} ELSE {})

_infer_target_tags(cl) ==
    (IF contains(cl, "another target creature you control")
     THEN {"ANOTHER_CREATURE_YOU_CONTROL"}
     ELSE IF contains(cl, "creature you control")
     THEN {"CREATURE_YOU_CONTROL"} ELSE {})
    \cup (IF contains(cl, "token you control")
                \/ contains(cl, "tokens you control")
          THEN {"TOKEN_YOU_CONTROL"} ELSE {})
    \cup (IF contains(cl, "target creature or enchantment you control")
          THEN {"CREATURE_OR_ENCHANTMENT_YOU_CONTROL"} ELSE {})
    \cup (IF contains(cl, "any target") THEN {"ANY_TARGET"}
          ELSE IF contains(cl, "target creature") THEN {"ANY_CREATURE"}
          ELSE {})
    \cup (IF contains(cl, "target player") THEN {"ANY_PLAYER"} ELSE {})

_parse_result_tags(result_text, card_name) ==
    LET
        \* the tags one ActionUnit of a result adds
        ResultTagsOfUnit(act, cl) ==
            IF act.kind = Some("DRAW_CARD") THEN {ev("DRAW", "CARD", "YOU")}
            ELSE IF act.kind = Some("CREATE_TOKEN")
            THEN {ev("CREATE", "TOKEN", "YOU")}
            ELSE IF act.kind = Some("GAIN_LIFE")
            THEN {ev("GAIN", "LIFE",
                     IF contains(cl, "each opponent gains")
                            \/ contains(cl, "target opponent gains")
                     THEN "OPPONENT" ELSE "YOU")}
            ELSE IF act.kind = Some("LOSE_LIFE")
            THEN {ev("LOSE", "LIFE",
                     IF contains(cl, "target opponent")
                            \/ contains(cl, "each opponent")
                            \/ contains(cl, "opponent loses")
                     THEN "OPPONENT" ELSE "YOU")}
            ELSE IF act.kind = Some("DEAL_DAMAGE")
            THEN {ev("DEAL", "DAMAGE",
                     IF ~IsNone(act.target) /\ contains(Val(act.target), "opponent")
                     THEN "OPPONENT" ELSE "ANY_PLAYER")}
            ELSE IF act.kind = Some("ADD_MANA") THEN {ev("ADD", "MANA", "YOU")}
            ELSE IF act.kind = Some("ADD_COUNTER")
            THEN {ev("ADD", "COUNTER", "YOUR_PERMANENT")}
            ELSE IF act.kind = Some("REMOVE_COUNTER")
            THEN {ev("LOSE", "COUNTER", "YOUR_PERMANENT")}
            ELSE IF act.kind = Some("SACRIFICE_CREATURE")
            THEN {ev("SACRIFICE", "PERMANENT", "YOUR_PERMANENT")}
            ELSE {}
        \* re.search(rf"{words}\s+\{", text, flags=re.IGNORECASE); atWord: the
        \* pattern starts with \b
        WordsThenBrace(text, words, atWord) ==
            LET Matches(tl) ==
                    \E i \in 1..Len(tl) :
                        /\ OccursAt(tl, words, i)
                        /\ atWord => WordBoundary(tl, i)
                        /\ SpaceRun(tl, i + Len(words)) > 0
                        /\ OccursAt(tl, "{", i + Len(words)
                                                + SpaceRun(tl, i + Len(words)))
            IN  Matches(lower(text))
        \* the scope of what returns to the battlefield
        ReturnScope(cl) ==
            IF contains(cl, "under your control") \/ contains(cl, "your graveyard")
                    \/ contains(cl, "you control")
            THEN "YOUR_PERMANENT"
            ELSE "ANY_PERMANENT"
        \* the tags of the lowered text cl and of the ActionUnits of the text
        Tags(cl, units) ==
            UNION {ResultTagsOfUnit(units[k], cl) : k \in 1..Len(units)}
            \cup TagIf(/\ contains(cl, "into your hand")
                       /\ (contains(cl, "card") \/ contains(cl, "cards"))
                       /\ contains(cl, "put"),
                       ev("DRAW", "CARD", "YOU"))
            \cup TagIf(contains(cl, "scry"), ev("DRAW", "CARD", "YOU"))
            \cup TagIf(_subject_verb_object(cl, "you", "draw", "card"),
                       ev("DRAW", "CARD", "YOU"))
            \cup TagIf(_subject_verb_object(cl, "you", "gain", "life"),
                       ev("GAIN", "LIFE", "YOU"))
            \cup TagIf(\/ _subject_verb_object(cl, "target opponent", "lose",
                                               "life")
                       \/ _subject_verb_object(cl, "each opponent", "lose", "life")
                       \/ _subject_verb_object(cl, "an opponent", "lose", "life")
                       \/ _subject_verb_object(cl, "opponent", "lose", "life"),
                       ev("LOSE", "LIFE", "OPPONENT"))
            \cup TagIf(contains(cl, "each opponent sacrifices a creature"),
                       ev("SACRIFICE", "PERMANENT", "OPPONENT"))
            \cup TagIf(contains(cl, "each opponent") /\ contains(cl, "discards"),
                       ev("LOSE", "CARD", "OPPONENT"))
            \cup TagIf(\/ contains(cl, "target opponent discards")
                       \/ contains(cl, "target player discards"),
                       ev("LOSE", "CARD", "ANY_PLAYER"))
            \cup TagIf(\/ _subject_verb_object(cl, "it", "deal", "damage")
                       \/ (contains(cl, "deals") /\ contains(cl, "damage")),
                       ev("DEAL", "DAMAGE", "ANY_PLAYER"))
            \cup TagIf(contains(cl, "add") /\ contains(cl, "mana"),
                       ev("ADD", "MANA", "YOU"))
            \cup TagIf(WordsThenBrace(result_text, "add", TRUE),
                       ev("ADD", "MANA", "YOU"))
            \cup TagIf(WordsThenBrace(result_text, "you may pay", FALSE),
                       ev("LOSE", "MANA", "YOU"))
            \cup TagIf(contains(cl, "return") /\ contains(cl, "to the battlefield"),
                       ev("ENTERS", "PERMANENT", ReturnScope(cl)))
    IN
        Tags(lower(result_text), extract_action_units(result_text, card_name))

_parse_trigger_tags(trigger_text, card_name) ==
    LET
        \* the tags for the casting of a spell, from the text
        CastTags(tl) ==
            IF contains(" " \o tl \o " ", " cast ") /\ contains(tl, "spell")
            THEN IF contains(tl, "you cast") THEN {ev("CAST", "CARD", "YOU")}
                 ELSE IF \/ contains(tl, "each opponent casts")
                         \/ contains(tl, "an opponent casts")
                         \/ contains(tl, "opponent casts")
                 THEN {ev("CAST", "CARD", "OPPONENT")}
                 ELSE IF contains(tl, "each player casts")
                            \/ contains(tl, "a player casts")
                 THEN {ev("CAST", "CARD", "ANY_PLAYER")}
                 ELSE {}
            ELSE {}
        \* the tags for the casting of a spell, from a CAST_SPELL ActionUnit
        CastUnitTags(units, tl) ==
            IF \E k \in 1..Len(units) : units[k].kind = Some("CAST_SPELL")
            THEN {ev("CAST", "CARD",
                     IF contains(tl, "you cast") THEN "YOU"
                     ELSE IF contains(tl, "opponent casts") THEN "OPPONENT"
                     ELSE "ANY_PLAYER")}
            ELSE {}
        \* the ENTERS tags
        EntersTags(tl) ==
            TagIf(contains(tl, "this creature enters"),
                  ev("ENTERS", "PERMANENT", "YOUR_PERMANENT"))
            \cup TagIf(contains(tl, "enters") /\ contains(tl, "you control"),
                       ev("ENTERS",
                          IF contains(tl, "token") THEN "TOKEN" ELSE "PERMANENT",
                          "YOUR_PERMANENT"))
            \cup (IF contains(tl, "enters the battlefield under your control")
                  THEN {ev("ENTERS",
                           IF contains(tl, "token") THEN "TOKEN" ELSE "PERMANENT",
                           "YOUR_PERMANENT")}
                  ELSE IF contains(tl, "enters the battlefield")
                  THEN {ev("ENTERS", "PERMANENT", "ANY_PERMANENT")}
                  ELSE {})
        \* the tags added up to the tests for a creature that dies
        UpToDies(tl, units) ==
            TagIf(contains(tl, "at the beginning of your upkeep"),
                  EventTag("STEP", "PERMANENT", "YOU", Some("UPKEEP")))
            \cup CastTags(tl)
            \cup CastUnitTags(units, tl)
            \cup TagIf(_subject_verb_object(tl, "you", "draw", "card"),
                       ev("DRAW", "CARD", "YOU"))
            \cup TagIf(_subject_verb_object(tl, "you", "gain", "life"),
                       ev("GAIN", "LIFE", "YOU"))
            \cup TagIf(\/ _subject_verb_object(tl, "opponent", "lose", "life")
                       \/ _subject_verb_object(tl, "each opponent", "lose",
                                               "life")
                       \/ _subject_verb_object(tl, "an opponent", "lose",
                                               "life")
                       \/ _subject_verb_object(tl, "target opponent", "lose",
                                               "life"),
                       ev("LOSE", "LIFE", "OPPONENT"))
            \cup TagIf(\/ contains(tl, "creature you control dies")
                       \/ contains(tl, "another creature you control dies"),
                       ev("DIES", "PERMANENT", "YOUR_PERMANENT"))
            \cup TagIf(\/ contains(tl, "creature an opponent controls dies")
                       \/ contains(tl,
                                   "another creature an opponent controls dies"),
                       ev("DIES", "PERMANENT", "OPPONENT"))
        \* every tag: the generic DIES tag is added when no DIES tag was
        AllTags(tl, upToDies) ==
            upToDies
            \cup TagIf(/\ contains(tl, "dies")
                       /\ contains(tl, "creature")
                       /\ ~\E t \in upToDies : t.kind = "DIES",
                       ev("DIES", "PERMANENT", "ANY_PERMANENT"))
            \cup TagIf(/\ contains(tl, "put into your graveyard from the battlefield")
                       /\ contains(tl, "creature"),
                       ev("DIES", "PERMANENT", "YOUR_PERMANENT"))
            \cup EntersTags(tl)
    IN
        AllTags(lower(trigger_text),
                UpToDies(lower(trigger_text),
                         extract_action_units(trigger_text, card_name)))

\* Cost clauses usually show up on the left side of ':'
_parse_cost_tags(cost_text) ==
    LET
        \* re.findall(r"\{[^}]+\}", s): the symbols with their braces
        BracedSymbols(s) ==
            LET Braced(ms) == [k \in 1..Len(ms) |-> SubSeq(s, ms[k][1], ms[k][2])]
            IN  Braced(BraceMatches(s, 1))
        \* [s for s in symbols if s.lower() not in ("{t}", "{q}")], lowered
        ManaSymbols(symbols) ==
            SelectSeq([k \in 1..Len(symbols) |-> lower(symbols[k])],
                      LAMBDA s : s \notin {"{t}", "{q}"})
        \* the tags of the lowered text cl and of the mana symbols of the text
        Tags(cl, mana_symbols) ==
            TagIf(mana_symbols # <<>>, ev("LOSE", "MANA", "YOU"))
            \cup TagIf(contains(cl, "sacrifice"),
                       ev("SACRIFICE", "PERMANENT", "YOUR_PERMANENT"))
            \cup TagIf(contains(cl, "discard") /\ contains(cl, "card"),
                       ev("LOSE", "CARD", "YOU"))
            \cup TagIf(contains(cl, "pay") /\ contains(cl, "life"),
                       ev("LOSE", "LIFE", "YOU"))
            \cup TagIf(\/ contains(cl, "remove a +1/+1 counter")
                       \/ contains(cl, "remove a counter"),
                       ev("LOSE", "COUNTER", "YOUR_PERMANENT"))
    IN
        Tags(lower(cost_text), ManaSymbols(BracedSymbols(cost_text)))

-----------------------------------------------------------------------------
(* constants.py, card_effects.py: keyword hits                             *)

\* the keys of KEYWORD_GLOSSARY, in the order of the dict
KEYWORD_GLOSSARY ==
    <<"tap", "x", "additional cost", "cost", "mana", "mana ability",
      "mana value", "mulligan", "aura", "equipment", "planeswalker",
      "legendary", "basic land", "permanent", "token", "spell", "source",
      "color", "colorless", "enters the battlefield",
      "leaves the battlefield", "put onto the battlefield", "exile",
      "shuffle", "scry", "sacrifice", "discard",
      "counter a spell or ability", "counter on a permanent", "destroy",
      "damage", "combat damage", "deathtouch", "double strike",
      "first strike", "trample", "flying", "reach", "menace", "vigilance",
      "lifelink", "haste", "goad", "defender", "hexproof", "indestructible",
      "flash", "flashback", "control", "controller", "owner", "player",
      "opponent", "you">>

KeywordHit(keyword, left_words, right_words) ==
    [keyword |-> keyword, left_words |-> left_words,
     right_words |-> right_words]

\* the indices where a match of WORD_TOKEN_RE (\w+|\S) starts
TokenStarts(text) ==
    {i \in 1..Len(text) :
        /\ ~IsSpace(Char(text, i))
        /\ IsWordAt(text, i) => ~IsWordAt(text, i - 1)}

\* the tokens of _tokenize_with_spans, without their spans
_tokenize_with_spans(text) ==
    LET
        \* the token that starts at index i: a run of \w characters or one character
        TokenFrom(s, i) ==
            IF IsWordAt(s, i)
            THEN SubSeq(s, i,
                        Least({e \in i..Len(s) : ~IsWordAt(s, e + 1)}))
            ELSE Char(s, i)
        TokensAt(starts) == [k \in 1..Len(starts) |-> TokenFrom(text, starts[k])]
    IN
        TokensAt(Ascending(TokenStarts(text)))

\* no two keys of the glossary are equal in lower case, so the `seen` set
\* never drops a match
_extract_keyword_hits(c) ==
    LET
        \* the hit for keyword kw matched at index start: two tokens of context to
        \* the left, three to the right of the token that holds index start
        HitAt(text, tokens, kw, start) ==
            LET HitOfToken(token_idx) ==
                    KeywordHit(kw,
                               SubSeq(tokens, Max(1, token_idx - 2), token_idx - 1),
                               SubSeq(tokens, token_idx + 1,
                                      Min(Len(tokens), token_idx + 3)))
            IN  HitOfToken(Cardinality({i \in TokenStarts(text) : i <= start}))
        \* the hits of every keyword of the glossary, in the order of the glossary
        Hits(lc, tokens) ==
            LET HitsAt(kw, starts) ==
                    [k \in 1..Len(starts) |-> HitAt(c, tokens, kw, starts[k])]
                HitsOf(kw) == HitsAt(kw, Ascending(WordHits(lc, lower(kw))))
            IN  ConcatAll([k \in 1..Len(KEYWORD_GLOSSARY) |->
                              HitsOf(KEYWORD_GLOSSARY[k])])
    IN
        IF c = "" THEN <<>> ELSE Hits(lower(c), _tokenize_with_spans(c))

-----------------------------------------------------------------------------
(* card_effects.py: parse_effects_from_text                                *)

\* _split_trigger_clause when TRIGGER_PREFIX_RE matches nothing
_split_trigger_clause_unmatched(text) == <<None, text>>

\* _split_trigger_clause that hands the clause on as the result text as well
_split_trigger_clause_keeping_result(text) == <<Some(strip(text)), strip(text)>>

\* <<trigger_text or None, result_text>>
_split_trigger_clause(text) ==
    LET \* trigger_part, result_part = [p.strip() for p in rest.split(",", 1)]
        Parts(prefix, pair) ==
            <<Some(strip(strip(prefix) \o " " \o strip(pair[1]))), strip(pair[2])>>
        \* rest = text[m.end():].strip()
        Rest(prefix, rest) ==
            IF contains(rest, ",") THEN Parts(prefix, SplitFirst(rest, ","))
            ELSE <<Some(strip(text)), "">>
        \* m = TRIGGER_PREFIX_RE.match(text); m_end = 0 when there is no match
        Match(m_end) ==
            IF m_end = 0 THEN <<None, text>>
            ELSE Rest(SubSeq(text, 1, m_end),
                      strip(SubSeq(text, m_end + 1, Len(text))))
    IN  Match(TriggerPrefixEnd(text))

\* <<cost_text or None, result_text>>
_split_cost_clause(text) ==
    LET Parts(pair) == <<Some(strip(pair[1])), strip(pair[2])>>
    IN  IF ~contains(text, ":") THEN <<None, text>>
        ELSE Parts(SplitFirst(text, ":"))

\* type_line is not read
parse_effects_from_text(text, type_line, card_name) ==
    LET
        \* `if x:` for an optional text: neither None nor empty
        Truthy(x) == ~IsNone(x) /\ Val(x) # ""
        \* the three texts an ability is split into, by effect type
        SplitByType(c, effect_type) ==
            LET Texts(pair, trigger, cost) ==
                    [trigger_text |-> IF trigger THEN pair[1] ELSE None,
                     cost_text |-> IF cost THEN pair[1] ELSE None,
                     result_text |-> pair[2]]
            IN  IF effect_type = "triggered"
                THEN Texts(_split_trigger_clause(c), TRUE, FALSE)
                ELSE IF effect_type = "activated"
                THEN Texts(_split_cost_clause(c), FALSE, TRUE)
                ELSE Texts(<<None, c>>, FALSE, FALSE)
        \* the Effect built from the ability `c`, its effect type and its texts
        Built(c, effect_type, sp) ==
            [raw_text |-> c,
             effect_type |-> effect_type,
             trigger_tags |->
                 IF Truthy(sp.trigger_text)
                 THEN _parse_trigger_tags(Val(sp.trigger_text), card_name)
                 ELSE {},
             cost_tags |->
                 IF Truthy(sp.cost_text) THEN _parse_cost_tags(Val(sp.cost_text))
                 ELSE {},
             result_tags |->
                 IF sp.result_text # ""
                 THEN _parse_result_tags(sp.result_text, card_name)
                 ELSE {},
             trigger_atoms |-> <<>>,
             cost_atoms |->
                 IF Truthy(sp.cost_text) THEN _parse_cost_atoms(Val(sp.cost_text))
                 ELSE <<>>,
             result_atoms |->
                 IF sp.result_text # ""
                 THEN _parse_result_atoms(sp.result_text, card_name)
                 ELSE <<>>,
             actor_tags |->
                 IF effect_type = "activated"
                 THEN _infer_actor_tags(lower(c)) \cup {"YOU"}
                 ELSE _infer_actor_tags(lower(c)),
             target_tags |-> _infer_target_tags(lower(c)),
             timing |-> None,
             condition_description |-> sp.trigger_text,
             modes |-> <<>>,
             trigger_text |-> sp.trigger_text,
             cost_text |-> sp.cost_text,
             result_text |-> sp.result_text,
             trigger_actions |->
                 IF Truthy(sp.trigger_text)
                 THEN extract_action_units(Val(sp.trigger_text), card_name)
                 ELSE <<>>,
             cost_actions |->
                 IF Truthy(sp.cost_text)
                 THEN extract_action_units(Val(sp.cost_text), card_name)
                 ELSE <<>>,
             result_actions |->
                 IF sp.result_text # ""
                 THEN extract_action_units(sp.result_text, card_name)
                 ELSE <<>>,
             keyword_hits |-> _extract_keyword_hits(c)]
        \* the Effect built by one pass of the loop body for the ability `c`, which
        \* is not empty (so the result text of a static ability is not empty)
        EffectOf(c) ==
            LET OfType(effect_type) ==
                    Built(c, effect_type, SplitByType(c, effect_type))
            IN  OfType(_guess_effect_type(c))
        \* c = c.strip(); if not c: continue
        Stripped(abilities) ==
            SelectSeq([k \in 1..Len(abilities) |-> strip(abilities[k])],
                      LAMBDA c : c # "")
        \* the Effect of every ability, in order
        EffectsOf(abilities) ==
            [k \in 1..Len(abilities) |-> EffectOf(abilities[k])]
        \* "Ignore pure reminder / flavor clauses": the Effect is appended
        IsKept(e) ==
            \/ e.trigger_tags # {}
            \/ e.cost_tags # {}
            \/ e.result_tags # {}
            \/ e.trigger_atoms # <<>>
            \/ e.cost_atoms # <<>>
            \/ e.result_atoms # <<>>
    IN
        IF text = "" THEN <<>>
        ELSE SelectSeq(EffectsOf(Stripped(_split_abilities(text))), IsKept)

-----------------------------------------------------------------------------
(* card_effects.py: Effect, Card and card_from_row                         *)

\* Effect(raw_text, effect_type): every other field at its default
Effect(raw_text, effect_type) ==
    [raw_text |-> raw_text, effect_type |-> effect_type,
     trigger_tags |-> {}, cost_tags |-> {}, result_tags |-> {},
     trigger_atoms |-> <<>>, cost_atoms |-> <<>>, result_atoms |-> <<>>,
     actor_tags |-> {}, target_tags |-> {}, timing |-> None,
     condition_description |-> None, modes |-> <<>>,
     trigger_text |-> None, cost_text |-> None, result_text |-> None,
     trigger_actions |-> <<>>, cost_actions |-> <<>>,
     result_actions |-> <<>>, keyword_hits |-> <<>>]

\* Card(...): power, toughness and loyalty at their default
Card(name, mana_value, mana_cost, colors, types, subtypes, is_permanent, cast_timing, text, keywords, effs) ==
    [name |-> name, mana_value |-> mana_value, mana_cost |-> mana_cost,
     colors |-> colors, types |-> types, subtypes |-> subtypes,
     is_permanent |-> is_permanent, cast_timing |-> cast_timing,
     oracle_text |-> text, keywords |-> keywords, power |-> None,
     toughness |-> None, loyalty |-> None, effects |-> effs]

\* the union of f(e) over the effects of a card
TagsOfCard(c, f) == UNION {c.effects[i][f] : i \in 1..Len(c.effects)}

all_trigger_tags(c) == TagsOfCard(c, "trigger_tags")
all_result_tags(c) == TagsOfCard(c, "result_tags")
all_cost_tags(c) == TagsOfCard(c, "cost_tags")

\* A Python value as a row may hold it: a missing key, None, NaN, a str, a
\* list of str or an int.  Only the field its tag names is read.
PyValue(tag, text, items, num) ==
    [tag |-> tag, text |-> text, items |-> items, num |-> num]

Absent == PyValue("absent", "", <<>>, 0)
PyNone == PyValue("none", "", <<>>, 0)
NaN == PyValue("nan", "", <<>>, 0)
Str(s) == PyValue("str", s, <<>>, 0)
List(l) == PyValue("list", "", l, 0)
Num(n) == PyValue("num", "", <<>>, n)

card_from_row(r) ==
    LET
        \* row.get(key, default)
        Get(a_row, key, default) == IF a_row[key].tag = "absent" THEN default ELSE a_row[key]
        \* bool(v)
        IsTrue(v) ==
            CASE v.tag = "none" -> FALSE
              [] v.tag = "nan" -> TRUE
              [] v.tag = "str" -> v.text # ""
              [] v.tag = "list" -> v.items # <<>>
              [] v.tag = "num" -> v.num # 0
        \* str(n) for an int n >= 0
        RECURSIVE StrOfNat(_)
        StrOfNat(n) ==
            IF n < 10 THEN Char(Digits, n + 1)
            ELSE StrOfNat(n \div 10) \o Char(Digits, (n % 10) + 1)
        \* str(row.get(key, "") or "")
        TextField(a_row, key) ==
            LET
                \* repr(s) for a str without quotes or backslashes
                Repr(s) == "'" \o s \o "'"
                \* str(v)
                PyStr(v) ==
                    CASE v.tag = "none" -> "None"
                      [] v.tag = "nan" -> "nan"
                      [] v.tag = "str" -> v.text
                      [] v.tag = "list" ->
                            "[" \o join(", ", [i \in 1..Len(v.items) |-> Repr(v.items[i])])
                                \o "]"
                      [] v.tag = "num" ->
                            IF v.num < 0 THEN "-" \o StrOfNat(0 - v.num) ELSE StrOfNat(v.num)
            IN
                IF IsTrue(Get(a_row, key, Str(""))) THEN PyStr(Get(a_row, key, Str("")))
                ELSE ""
        \* s.split(","): the pieces between the commas
        SplitCommas(s) == SplitOn(s, {","})
        \* the keywords list
        KeywordsOf(raw_kw) ==
            CASE raw_kw.tag = "list" -> raw_kw.items
              [] raw_kw.tag \in {"none", "nan"} -> <<>>
              [] raw_kw.tag = "str" -> StripAndDropBlank(SplitCommas(raw_kw.text))
              [] OTHER -> <<>>
        \* the colors list; list(raw_colors) raises TypeError for an int
        ColorsOf(raw_colors) ==
            LET
                \* s.strip(chars)
                StripChars(s, chars) ==
                    LET keep == {i \in 1..Len(s) : Char(s, i) \notin chars}
                    IN  IF keep = {} THEN ""
                        ELSE SubSeq(s, Least(keep), CHOOSE i \in keep : \A j \in keep : j <= i)
                \* [c.strip(" '\"") for c in inner.split(",") if c.strip()]
                BracketedColors(inner) ==
                    LET pieces == SelectSeq(SplitCommas(inner), LAMBDA c : strip(c) # "")
                    IN  [i \in 1..Len(pieces) |-> StripChars(pieces[i], {" ", "'", "\""})]
                \* [c for c in raw_colors if c in {"W", "U", "B", "R", "G"}]
                ColorLetters(s) ==
                    SelectSeq([i \in 1..Len(s) |-> Char(s, i)],
                              LAMBDA c : c \in {"W", "U", "B", "R", "G"})
            IN
                CASE raw_colors.tag = "list" -> raw_colors.items
                  [] raw_colors.tag \in {"none", "nan"} -> <<>>
                  [] raw_colors.tag = "str" ->
                        IF startswith(raw_colors.text, "[")
                                /\ endswith(raw_colors.text, "]")
                        THEN BracketedColors(SubSeq(raw_colors.text, 2,
                                                    Len(raw_colors.text) - 1))
                        ELSE ColorLetters(raw_colors.text)
                  [] OTHER -> <<>>
        \* [t for t in type_line.replace("—", "-").split() if t and t[0].isupper()];
        \* the texts here are ASCII, where the replace changes nothing
        TypesOf(type_line) ==
            SelectSeq(split(type_line),
                      LAMBDA t : t # "" /\ Char(t, 1) \in CharsOf(UpperLetters))
        \* float(row.get("cmc", 0) or 0.0), 0.0 when that raises
        ManaValueOf(a_row) ==
            LET
                \* float(v) as Some(Num(n)) or Some(NaN), or None when float raises.  A str
                \* is a number when it is digits within whitespace; the texts here hold no
                \* other number.
                FloatOf(v) ==
                    CASE v.tag = "num" -> Some(v)
                      [] v.tag = "nan" -> Some(v)
                      [] v.tag = "str" ->
                            IF isdigit(strip(v.text)) THEN Some(Num(int(strip(v.text))))
                            ELSE None
                      [] OTHER -> None
            IN
                LET raw == Get(a_row, "cmc", Num(0))
                IN  IF ~IsTrue(raw) THEN Num(0)
                    ELSE IF IsNone(FloatOf(raw)) THEN Num(0)
                    ELSE Val(FloatOf(raw))
        type_line == TextField(r, "type_line")
        text == TextField(r, "oracle_text")
        name == TextField(r, "name")
        spell == contains(type_line, "Instant") \/ contains(type_line, "Sorcery")
    IN  Card(name,
             ManaValueOf(r),
             TextField(r, "mana_cost"),
             ColorsOf(Get(r, "color_identity", List(<<>>))),
             TypesOf(type_line),
             <<>>,
             ~spell,
             IF contains(type_line, "Instant") THEN "instant_speed"
             ELSE IF contains(type_line, "Sorcery") THEN "sorcery_speed"
             ELSE "special",
             text,
             KeywordsOf(Get(r, "keywords", List(<<>>))),
             parse_effects_from_text(text, type_line, name))

\* summarize_card_engine with a short form that leaves the scope out
summarize_card_engine_without_scope(c) ==
    LET
        short(t) ==
            t.kind \o ":" \o t.resource \o ":"
                \o (IF IsNone(t.step) THEN "-" ELSE Val(t.step))
    IN
        [name |-> c.name,
         triggers |-> {short(t) : t \in all_trigger_tags(c)},
         results |-> {short(t) : t \in all_result_tags(c)},
         costs |-> {short(t) : t \in all_cost_tags(c)},
         actors |-> TagsOfCard(c, "actor_tags"),
         targets |-> TagsOfCard(c, "target_tags")]

\* the dict of summarize_card_engine, as a record
summarize_card_engine(c) ==
    LET
        \* EventTag.short(): the names of the members, "-" for no step
        short(t) ==
            t.kind \o ":" \o t.resource \o ":" \o t.scope \o ":"
                \o (IF IsNone(t.step) THEN "-" ELSE Val(t.step))
    IN
        [name |-> c.name,
         triggers |-> {short(t) : t \in all_trigger_tags(c)},
         results |-> {short(t) : t \in all_result_tags(c)},
         costs |-> {short(t) : t \in all_cost_tags(c)},
         actors |-> TagsOfCard(c, "actor_tags"),
         targets |-> TagsOfCard(c, "target_tags")]

-----------------------------------------------------------------------------
(* card_effects.py: engine_score and card_synergy, in tenths               *)

\* the number of tags of a set that satisfy a test
Count(tags, Test(_)) == Cardinality({t \in tags : Test(t)})

RECURSIVE SumSeq(_)
SumSeq(xs) == IF xs = <<>> THEN 0 ELSE Head(xs) + SumSeq(Tail(xs))

engine_score(c) ==
    LET
        \* what one Effect adds to the engine score
        EngineScoreOfEffect(e) ==
            15 * Count(e.trigger_tags,
                       LAMBDA t : t.kind = "DRAW" /\ t.scope = "YOU")
            + 15 * Count(e.trigger_tags,
                         LAMBDA t : t.kind = "GAIN" /\ t.resource = "LIFE")
            + 10 * Count(e.trigger_tags,
                         LAMBDA t : t.kind = "ENTERS"
                                    /\ t.scope \in {"YOUR_PERMANENT", "ANY_PERMANENT"})
            + 10 * Count(e.trigger_tags, LAMBDA t : t.kind = "DIES")
            + 30 * Count(e.result_tags,
                         LAMBDA r : r.kind = "DRAW" /\ r.resource = "CARD")
            + 25 * Count(e.result_tags,
                         LAMBDA r : r.kind = "CREATE" /\ r.resource = "TOKEN")
            + 10 * Count(e.result_tags,
                         LAMBDA r : r.kind = "GAIN" /\ r.resource = "LIFE")
            - (IF \E t \in e.cost_tags :
                      t.kind = "SACRIFICE" /\ t.resource = "PERMANENT"
               THEN 10 ELSE 0)
            - (IF \E t \in e.cost_tags : t.kind = "LOSE" /\ t.resource = "LIFE"
               THEN 5 ELSE 0)
    IN
        SumSeq([i \in 1..Len(c.effects) |-> EngineScoreOfEffect(c.effects[i])])

\* a ResourceDelta of mana in the list
IsManaDelta(a) == a.variant = "ResourceDelta" /\ a.resource = "mana"

\* effect_consumes_mana reading the result atoms as well as the cost atoms
effect_consumes_mana_from_any_list(e) ==
    \E i \in 1..Len(e.cost_atoms \o e.result_atoms) :
        /\ IsManaDelta((e.cost_atoms \o e.result_atoms)[i])
        /\ (e.cost_atoms \o e.result_atoms)[i].delta < 0

effect_consumes_mana(e) ==
    \E i \in 1..Len(e.cost_atoms) :
        IsManaDelta(e.cost_atoms[i]) /\ e.cost_atoms[i].delta < 0

effect_produces_mana(e) ==
    \E i \in 1..Len(e.result_atoms) :
        IsManaDelta(e.result_atoms[i]) /\ e.result_atoms[i].delta > 0

effect_produces_bodies(e) ==
    \E i \in 1..Len(e.result_atoms) :
        LET a == e.result_atoms[i]
        IN  /\ a.variant = "ZoneMove"
            /\ a.to_zone = "BATTLEFIELD"
            /\ a.obj \in {"TOKEN", "PERMANENT"}
            /\ a.controller = Some("YOU")

effect_sacs_creatures(e) ==
    \E i \in 1..Len(e.cost_atoms) :
        LET a == e.cost_atoms[i]
        IN  /\ a.variant = "ZoneMove"
            /\ a.from_zone = "BATTLEFIELD"
            /\ a.to_zone = "GRAVEYARD"
            /\ a.obj = "PERMANENT"
            /\ a.controller = Some("YOU")
            /\ a.cause = "SACRIFICE"

card_synergy(a, b) ==
    LET
        \* 10 * x when cond holds
        Tenths(cond, x) == IF cond THEN 10 * x ELSE 0
        \* the per-effect pass for one pair of effects
        PairSynergy(ea, eb) ==
            Tenths(ea.result_tags \cap eb.trigger_tags # {}, 3)
            + Tenths(eb.result_tags \cap ea.trigger_tags # {}, 3)
            + Tenths(effect_produces_mana(ea) /\ effect_consumes_mana(eb), 2)
            + Tenths(effect_produces_mana(eb) /\ effect_consumes_mana(ea), 2)
            + Tenths(effect_produces_bodies(ea) /\ effect_sacs_creatures(eb), 2)
            + Tenths(effect_produces_bodies(eb) /\ effect_sacs_creatures(ea), 2)
        good_resources ==
            {<<"DRAW", "CARD">>, <<"CREATE", "TOKEN">>, <<"ADD", "COUNTER">>,
             <<"ADD", "MANA">>, <<"GAIN", "LIFE">>}
        good_output_pairs(res_tags) ==
            {<<t.kind, t.resource>> :
                t \in {u \in res_tags : /\ <<u.kind, u.resource>> \in good_resources
                                        /\ u.scope \in {"YOU", "YOUR_PERMANENT"}}}
        bad_cost_pairs == {<<"SACRIFICE", "PERMANENT">>, <<"LOSE", "LIFE">>}
        bad_costs(cost_tags) ==
            {<<t.kind, t.resource>> :
                t \in {u \in cost_tags : <<u.kind, u.resource>> \in bad_cost_pairs}}
    IN
        LET a_trig == all_trigger_tags(a)
            a_res == all_result_tags(a)
            a_cost == all_cost_tags(a)
            b_trig == all_trigger_tags(b)
            b_res == all_result_tags(b)
            b_cost == all_cost_tags(b)
            feeds_ab == Cardinality(a_res \cap b_trig)
            feeds_ba == Cardinality(b_res \cap a_trig)
            shared_good ==
                Cardinality(good_output_pairs(a_res) \cap good_output_pairs(b_res))
            shared_bad == Cardinality(bad_costs(a_cost) \cap bad_costs(b_cost))
        IN  30 * (feeds_ab + feeds_ba)
            + SumSeq([k \in 1..(Len(a.effects) * Len(b.effects)) |->
                        PairSynergy(a.effects[((k - 1) \div Len(b.effects)) + 1],
                                    b.effects[((k - 1) % Len(b.effects)) + 1])])
            + 15 * shared_good
            - 10 * shared_bad

-----------------------------------------------------------------------------
(* The matcher under test: an atom is drawn, a pattern is built field by   *)
(* field (from all wildcards, or from a copy of the atom), and             *)
(* atom_matches is called on the pair.                                     *)

MaxMask == 5     \* masks 0 .. MaxMask are tried (5 = TAPPED | FACE_DOWN)
MaxEdits == 2    \* pattern fields changed after construction or copy

AtomSamples ==
    LET ZoneMoveSamples ==
            {ZoneMove(f, t, o, ty, c, ca, "CARD") :
                f \in {"BATTLEFIELD", "HAND"}, t \in {"GRAVEYARD"},
                o \in {"PERMANENT", "TOKEN"}, ty \in {{}, {"Creature"}},
                c \in {None, Some("YOU")}, ca \in {"SACRIFICE"}}
        ResourceDeltaSamples ==
            {ResourceDelta(r, d, t, st, ca, "CARD") :
                r \in {"mana", "life"}, d \in {-1, 1}, t \in {Some("YOU")},
                st \in {None, Some("G")}, ca \in {"COST"}}
        StepChangeSamples ==
            {StepChange(s, src) : s \in {"UPKEEP", "END_STEP"},
                                  src \in {"RULES", "CARD"}}
        StateDeltaSamples ==
            {StateDelta(t, sm, cm, "COST", "CARD") :
                t \in {Some("SELF")}, sm \in 0..MaxMask, cm \in 0..MaxMask}
    IN
        ZoneMoveSamples \cup ResourceDeltaSamples \cup StepChangeSamples
            \cup StateDeltaSamples

WildcardPatterns ==
    {ZoneMovePattern, ResourceDeltaPattern, StepChangePattern,
     StateDeltaPattern}

\* the pattern variant that goes with an atom variant
PatternVariantOf(v) == v \o "Pattern"

\* the fields a pattern shares with the atom of its variant
SharedFields(pv) ==
    CASE pv = "ZoneMovePattern" ->
            {"from_zone", "to_zone", "obj", "controller", "cause", "source"}
      [] pv = "ResourceDeltaPattern" ->
            {"resource", "delta", "target", "subtype", "cause", "source"}
      [] pv = "StepChangePattern" -> {"step", "source"}
      [] pv = "StateDeltaPattern" ->
            {"target", "set_mask", "clear_mask", "cause", "source"}

PatternFields(pv) ==
    IF pv = "ZoneMovePattern"
    THEN SharedFields(pv) \cup {"require_type", "forbid_type"}
    ELSE SharedFields(pv)

MaskFields == {"set_mask", "clear_mask"}

\* an atom field as a pattern field would hold it
AsPatternField(a, f) ==
    LET
        \* the fields that are Optional in the atom, so already <<>> or <<v>>
        OptionalAtomFields == {"controller", "target", "subtype"}
    IN
                            IF f \in OptionalAtomFields THEN a[f] ELSE Some(a[f])

\* concrete values tried for a pattern field
FieldValues(f) ==
    CASE f \in {"from_zone", "to_zone"} -> {"BATTLEFIELD", "GRAVEYARD", "HAND"}
      [] f = "obj" -> {"PERMANENT", "TOKEN"}
      [] f = "controller" -> {"YOU", "OPPONENT"}
      [] f = "cause" -> {"SACRIFICE", "EFFECT", "COST"}
      [] f = "source" -> {"CARD", "RULES"}
      [] f = "resource" -> {"mana", "life"}
      [] f = "delta" -> {-1, 1}
      [] f = "target" -> {"YOU", "SELF"}
      [] f = "subtype" -> {"G", "R"}
      [] f = "step" -> {"UPKEEP", "END_STEP"}
      [] f \in MaskFields -> 0..MaxMask
      [] f \in {"require_type", "forbid_type"} -> {"Creature", "Land"}

EditedFields == {e[1] : e \in edits}

\* no atom under test
AtomsIdle ==
    /\ atom = StepChange("UPKEEP", "RULES")
    /\ pattern = StepChangePattern
    /\ copied = FALSE
    /\ edits = {}
    /\ matched = None

\* no clause under test
TextIdle ==
    /\ oracle_text = ""
    /\ nfrag = 0

\* no clause under test
TierIdle ==
    /\ clause = ""
    /\ tier = None
    /\ ability = ""
    /\ guess = None

\* nothing parsed
ParseIdle == effects = None

\* a row without keys
BlankRow ==
    LET
        RowFields ==
            {"name", "oracle_text", "type_line", "mana_cost", "cmc", "keywords",
             "color_identity"}
    IN
                [f \in RowFields |-> Absent]

\* no row under test
SessionIdle ==
    /\ row = BlankRow
    /\ card = None
    /\ kept = None
    /\ calls = [same_row |-> 0, other_row |-> 0, scoring |-> 0]
    /\ score = None
    /\ summary = None

\* no cards under test
SynergyIdle ==
    /\ card_a = <<>>
    /\ card_b = <<>>
    /\ synergy = None

InitAtoms ==
    /\ TextIdle
    /\ TierIdle
    /\ ParseIdle
    /\ SessionIdle
    /\ SynergyIdle
    /\ atom \in AtomSamples
    /\ pattern \in WildcardPatterns
    /\ copied = FALSE
    /\ edits = {}
    /\ matched = None

\* build the pattern as a copy of the atom
CopyAtom ==
    LET
        \* the pattern that copies every field of the atom
        CopyOf(a) ==
            LET pv == PatternVariantOf(a.variant)
                wild == CHOOSE w \in WildcardPatterns : w.variant = pv
            IN  [f \in DOMAIN wild |->
                    IF f \in SharedFields(pv) THEN AsPatternField(a, f) ELSE wild[f]]
    IN
        /\ ~copied
        /\ edits = {}
        /\ pattern' = CopyOf(atom)
        /\ copied' = TRUE
        /\ matched' = None
        /\ UNCHANGED <<atom, edits, textVars, tierVars, parseVars,
                     sessionVars, synergyVars>>

\* set one more pattern field to the wildcard
SetWildcard(f) ==
    /\ Cardinality(edits) < MaxEdits
    /\ f \in PatternFields(pattern.variant) \ EditedFields
    /\ pattern' = [pattern EXCEPT ![f] = None]
    /\ edits' = edits \cup {<<f, "wildcard">>}
    /\ matched' = None
    /\ UNCHANGED <<atom, copied, textVars, tierVars, parseVars,
                 sessionVars, synergyVars>>

\* set one more pattern field to a concrete value
SetConcrete(f, v) ==
    /\ Cardinality(edits) < MaxEdits
    /\ f \in PatternFields(pattern.variant) \ EditedFields
    /\ v \in FieldValues(f)
    /\ pattern' = [pattern EXCEPT ![f] = Some(v)]
    /\ edits' = edits \cup {<<f, "concrete">>}
    /\ matched' = None
    /\ UNCHANGED <<atom, copied, textVars, tierVars, parseVars,
                 sessionVars, synergyVars>>

\* call atom_matches(pattern, atom)
Match ==
    /\ IsNone(matched)
    /\ matched' = Some(atom_matches(pattern, atom))
    /\ UNCHANGED <<atom, pattern, copied, edits, textVars, tierVars, parseVars,
                 sessionVars, synergyVars>>

AllPatternFields ==
    UNION {PatternFields(w.variant) : w \in WildcardPatterns}

NextAtoms ==
    \/ CopyAtom
    \/ \E f \in AllPatternFields : SetWildcard(f)
    \/ \E f \in AllPatternFields : \E v \in FieldValues(f) : SetConcrete(f, v)
    \/ Match

SpecAtoms == InitAtoms /\ [][NextAtoms]_vars

-----------------------------------------------------------------------------
(* The classifiers under test: an oracle text is put together from         *)
(* fragments; mine_all_tiers hands each clause of split_clauses to         *)
(* classify_tier, parse_effects_from_text hands each ability of            *)
(* _split_abilities to _guess_effect_type.                                 *)

MaxFragments == 3    \* fragments in an oracle text

TierFragments ==
    {"If ", "Whenever ", "At the beginning of combat, ",
     "a creature you control would die, instead exile it.",
     "prevent ", "{T}: ", "Return it: ", "draw a card.", "\n"}

InitTier ==
    /\ AtomsIdle
    /\ TextIdle
    /\ TierIdle
    /\ ParseIdle
    /\ SessionIdle
    /\ SynergyIdle

\* one more fragment of oracle text
AppendFragment(f) ==
    /\ nfrag < MaxFragments
    /\ oracle_text' = oracle_text \o f
    /\ nfrag' = nfrag + 1
    /\ clause' = ""
    /\ tier' = None
    /\ ability' = ""
    /\ guess' = None
    /\ UNCHANGED <<atomVars, parseVars, sessionVars, synergyVars>>

\* mine_all_tiers: tier = classify_tier(clause) for a clause of the text
ClassifyTier ==
    /\ IsNone(tier)
    /\ LET clauses == split_clauses(oracle_text)
       IN  \E i \in 1..Len(clauses) :
               /\ clause' = clauses[i]
               /\ tier' = Some(classify_tier(clauses[i]))
               /\ UNCHANGED <<ability, guess, textVars, atomVars,
                             parseVars, sessionVars, synergyVars>>

\* parse_effects_from_text: effect_type = _guess_effect_type(clause) for an
\* ability of the text
GuessEffectType ==
    /\ IsNone(guess)
    /\ LET abilities == _split_abilities(oracle_text)
       IN  \E i \in 1..Len(abilities) :
               /\ strip(abilities[i]) # ""
               /\ ability' = strip(abilities[i])
               /\ guess' = Some(_guess_effect_type(strip(abilities[i])))
               /\ UNCHANGED <<clause, tier, textVars, atomVars,
                             parseVars, sessionVars, synergyVars>>

NextTier ==
    \/ \E f \in TierFragments : AppendFragment(f)
    \/ ClassifyTier
    \/ GuessEffectType

SpecTier == InitTier /\ [][NextTier]_vars

-----------------------------------------------------------------------------
(* The parser under test: an oracle text is put together from fragments    *)
(* and handed to parse_effects_from_text.                                  *)

ParseFragments ==
    {"Whenever a creature you control dies, ", "draw a card.",
     "Sacrifice a creature: Draw two cards.", "Flying\n{B}: Regenerate.",
     "{T}: Add {G} or {U}.\n{T}: Add {C}{C}. Spend this mana.\n{T}: Add {X}.\n{T}: draw a card. discard a card.\n{T}: Mill two cards.\nWhenever you draw a card\nWhenever you attack",
     "\n"}

InitParse ==
    /\ AtomsIdle
    /\ TextIdle
    /\ TierIdle
    /\ ParseIdle
    /\ SessionIdle
    /\ SynergyIdle

\* one more fragment of oracle text
AppendParseFragment(f) ==
    /\ nfrag < MaxFragments
    /\ oracle_text' = oracle_text \o f
    /\ nfrag' = nfrag + 1
    /\ effects' = None
    /\ UNCHANGED <<atomVars, tierVars, sessionVars, synergyVars>>

\* ParseEffectsFromText without the discard rule: every ability gives an
\* Effect, with no tags and no atoms when the parse found none
ParseEffectsKeepingAll ==
    /\ IsNone(effects)
    /\ effects' =
          Some(LET kept_effects == parse_effects_from_text(oracle_text, "", "")
                   abilities == _split_abilities(oracle_text)
                   OfAbility(c) ==
                       IF \E k \in 1..Len(kept_effects) : kept_effects[k].raw_text = c
                       THEN kept_effects[CHOOSE k \in 1..Len(kept_effects) :
                                            kept_effects[k].raw_text = c]
                       ELSE [Effect(c, _guess_effect_type(c)) EXCEPT !.result_text = c]
               IN  [k \in 1..Len(abilities) |-> OfAbility(strip(abilities[k]))])
    /\ UNCHANGED <<atomVars, textVars, tierVars, sessionVars, synergyVars>>

\* ParseEffectsFromText with the cost split made for every clause that
\* holds a colon, whatever its effect type
ParseEffectsSplittingEveryCost ==
    /\ IsNone(effects)
    /\ effects' =
          Some(LET parsed == parse_effects_from_text(oracle_text, "", "")
                   WithCost(e) ==
                       IF contains(e.raw_text, ":")
                       THEN [e EXCEPT !.cost_text = _split_cost_clause(e.raw_text)[1]]
                       ELSE e
               IN  [k \in 1..Len(parsed) |-> WithCost(parsed[k])])
    /\ UNCHANGED <<atomVars, textVars, tierVars, sessionVars, synergyVars>>

\* effects = parse_effects_from_text(oracle_text, type_line), card_name=None
ParseEffectsFromText ==
    /\ IsNone(effects)
    /\ effects' = Some(parse_effects_from_text(oracle_text, "", ""))
    /\ UNCHANGED <<atomVars, textVars, tierVars, sessionVars, synergyVars>>

NextParse ==
    \/ \E f \in ParseFragments : AppendParseFragment(f)
    \/ ParseEffectsFromText

SpecParse == InitParse /\ [][NextParse]_vars

-----------------------------------------------------------------------------
(* A session of build_engine_table-like use: rows of the card table are    *)
(* turned into Cards by card_from_row, one Card is kept, and the Cards are *)
(* scored by engine_score and card_synergy.                                *)

MaxCalls == 3    \* calls made after a Card was kept

RowSamples ==
    {[name |-> Str("Bob"), oracle_text |-> text,
      type_line |-> Str("Creature - Elf"), mana_cost |-> Str("{G}"),
      cmc |-> Num(1), keywords |-> kw, color_identity |-> Str("['G']")] :
        text \in {Str("Draw two cards."), Str("{T}: Add {G}."), PyNone},
        kw \in {List(<<"Haste">>), Str("Flying, Haste")}}

TotalCalls == calls.same_row + calls.other_row + calls.scoring

\* one more call of the kind `what`, counted once a Card is kept
Counted(what) ==
    IF IsNone(kept) THEN calls
    ELSE [calls EXCEPT ![what] = @ + 1]

InitSession ==
    LET
        \* the calls made since the Card was kept, counted by what was called
        NoCalls == [same_row |-> 0, other_row |-> 0, scoring |-> 0]
    IN
        /\ AtomsIdle
        /\ TextIdle
        /\ TierIdle
        /\ ParseIdle
        /\ SynergyIdle
        /\ row \in RowSamples
        /\ card = None
        /\ kept = None
        /\ calls = NoCalls
        /\ score = None
        /\ summary = None

\* the next row of the table
LoadRow(r) ==
    /\ r # row
    /\ row' = r
    /\ card' = None
    /\ UNCHANGED <<kept, calls, score, summary, atomVars, textVars, tierVars,
                   parseVars, synergyVars>>

\* CardFromRow with an effects list that outlives the call: the new Card
\* holds the effects of the Card made before, then its own
CardFromRowSharingEffects ==
    /\ TotalCalls < MaxCalls
    /\ card' = Some([card_from_row(row) EXCEPT !.effects =
                        (IF IsNone(card) THEN <<>> ELSE Val(card).effects)
                            \o @])
    /\ calls' = Counted(IF ~IsNone(kept) /\ Val(kept).row = row
                        THEN "same_row" ELSE "other_row")
    /\ UNCHANGED <<row, kept, score, summary, atomVars, textVars, tierVars,
                   parseVars, synergyVars>>

\* card = card_from_row(row)
CardFromRow ==
    /\ TotalCalls < MaxCalls
    /\ card' = Some(card_from_row(row))
    /\ calls' = Counted(IF ~IsNone(kept) /\ Val(kept).row = row
                        THEN "same_row" ELSE "other_row")
    /\ UNCHANGED <<row, kept, score, summary, atomVars, textVars, tierVars,
                   parseVars, synergyVars>>

\* keep the Card just made, with the row it was made of
KeepCard ==
    /\ IsNone(kept)
    /\ ~IsNone(card)
    /\ kept' = Some([row |-> row, card |-> Val(card)])
    /\ UNCHANGED <<row, card, calls, score, summary, atomVars, textVars,
                   tierVars, parseVars, synergyVars>>

\* EngineScore on a Card whose effects list the function empties as it reads
EngineScoreConsumingEffects ==
    /\ TotalCalls < MaxCalls
    /\ ~IsNone(card)
    /\ score' = Some(engine_score(Val(card)))
    /\ card' = Some([Val(card) EXCEPT !.effects = <<>>])
    /\ calls' = Counted("scoring")
    /\ UNCHANGED <<row, kept, summary, atomVars, textVars, tierVars,
                   parseVars, synergyVars>>

\* score = engine_score(card)
EngineScore ==
    /\ TotalCalls < MaxCalls
    /\ ~IsNone(card)
    /\ score' = Some(engine_score(Val(card)))
    /\ calls' = Counted("scoring")
    /\ UNCHANGED <<row, card, kept, summary, atomVars, textVars, tierVars,
                   parseVars, synergyVars>>

\* score = card_synergy(kept card, card)
CardSynergy ==
    /\ TotalCalls < MaxCalls
    /\ ~IsNone(card)
    /\ ~IsNone(kept)
    /\ score' = Some(card_synergy(Val(kept).card, Val(card)))
    /\ calls' = Counted("scoring")
    /\ UNCHANGED <<row, card, kept, summary, atomVars, textVars, tierVars,
                   parseVars, synergyVars>>

\* summary = summarize_card_engine(card)
SummarizeCardEngine ==
    /\ TotalCalls < MaxCalls
    /\ ~IsNone(card)
    /\ summary' = Some(summarize_card_engine(Val(card)))
    /\ calls' = Counted("scoring")
    /\ UNCHANGED <<row, card, kept, score, atomVars, textVars, tierVars,
                   parseVars, synergyVars>>

NextSession ==
    \/ \E r \in RowSamples : LoadRow(r)
    \/ CardFromRow
    \/ KeepCard
    \/ EngineScore
    \/ CardSynergy
    \/ SummarizeCardEngine

SpecSession == InitSession /\ [][NextSession]_vars

-----------------------------------------------------------------------------
(* card_from_row under test: fields of a row are made absent, null, NaN or *)
(* of another type, and a Card is made of the row.                         *)

MaxOddFields == 2    \* fields of the row that hold none of the sample values

\* row[f] = v, or del row[f] when v is Absent
SetRowField(f, v) ==
    LET
        \* the fields of a_row that hold none of the values of RowSamples
        OddFields(a_row) ==
            {g \in DOMAIN a_row : \A r \in RowSamples : r[g] # a_row[g]}
    IN
        /\ row[f] # v
        /\ Cardinality(OddFields([row EXCEPT ![f] = v])) <= MaxOddFields
        /\ row' = [row EXCEPT ![f] = v]
        /\ card' = None
        /\ UNCHANGED <<kept, calls, score, summary, atomVars, textVars, tierVars,
                       parseVars, synergyVars>>

NextRow ==
    \/ \E f \in {"name", "oracle_text", "type_line", "mana_cost", "cmc",
                  "keywords", "color_identity"} :
          \E v \in {Absent, PyNone, NaN, Num(5), Str("3"), Str("abc"),
                     List(<<"x">>)} :
              SetRowField(f, v)
    \/ CardFromRow

SpecRow == InitSession /\ [][NextRow]_vars

-----------------------------------------------------------------------------
(* card_synergy under test: two Cards are given Effects one by one, each   *)
(* Effect with its own cost atoms and result atoms, and scored.            *)

MaxEffects == 3    \* effects on the two cards together

EffectSamples ==
    LET ManaGain == ResourceDelta("mana", 1, Some("YOU"), Some("G"), "EFFECT", "CARD")
        ManaPayment == ResourceDelta("mana", -1, Some("YOU"), None, "COST", "CARD")
        TokenMade ==
            ZoneMove("COMMAND", "BATTLEFIELD", "TOKEN", {}, Some("YOU"), "EFFECT",
                     "CARD")
        Sacrificed ==
            ZoneMove("BATTLEFIELD", "GRAVEYARD", "PERMANENT", {}, Some("YOU"),
                     "SACRIFICE", "CARD")
        LifeGain == ResourceDelta("life", 1, Some("YOU"), None, "EFFECT", "CARD")
        LifePayment == ResourceDelta("life", -2, Some("YOU"), None, "COST", "CARD")
        \* an activated Effect with the given tags and atoms
        EffectWith(cost_tags, result_tags, cost_atoms, result_atoms) ==
            [Effect("", "activated") EXCEPT
                !.cost_tags = cost_tags, !.result_tags = result_tags,
                !.cost_atoms = cost_atoms, !.result_atoms = result_atoms]
        \* a triggered Effect with the given tags and atoms
        TriggeredWith(trigger_tags, result_tags, result_atoms) ==
            [Effect("", "triggered") EXCEPT
                !.trigger_tags = trigger_tags, !.result_tags = result_tags,
                !.result_atoms = result_atoms]
    IN
        {EffectWith({}, {ev("ADD", "MANA", "YOU")}, <<>>, <<ManaGain>>),
         EffectWith({ev("LOSE", "MANA", "YOU")}, {}, <<ManaPayment>>, <<>>),
         EffectWith({}, {}, <<>>, <<ManaPayment>>),
         EffectWith({}, {}, <<ManaGain>>, <<>>),
         EffectWith({}, {}, <<ManaPayment>>, <<ManaGain>>),
         EffectWith({}, {ev("CREATE", "TOKEN", "YOU")}, <<>>, <<TokenMade>>),
         EffectWith({ev("SACRIFICE", "PERMANENT", "YOUR_PERMANENT")},
                    {ev("DRAW", "CARD", "YOU")}, <<Sacrificed>>, <<>>),
         EffectWith({ev("SACRIFICE", "PERMANENT", "YOUR_PERMANENT"),
                     ev("LOSE", "LIFE", "YOU")},
                    {ev("ADD", "COUNTER", "ANY_PERMANENT")},
                    <<LifePayment, Sacrificed>>, <<>>),
         TriggeredWith({ev("DRAW", "CARD", "YOU"), ev("GAIN", "LIFE", "YOU")},
                       {ev("DRAW", "CARD", "YOU"), ev("GAIN", "LIFE", "YOU")},
                       <<LifeGain>>),
         TriggeredWith({ev("ENTERS", "PERMANENT", "YOUR_PERMANENT"),
                        ev("DIES", "PERMANENT", "YOUR_PERMANENT"),
                        ev("ENTERS", "PERMANENT", "SELF"),
                        EventTag("STEP", "PERMANENT", "YOU", Some("UPKEEP"))},
                       {ev("CREATE", "TOKEN", "YOU")}, <<TokenMade>>)}

InitSynergy ==
    LET
        \* a Card without effects
        BlankCard(name) ==
            Card(name, Num(0), "", <<>>, <<>>, <<>>, TRUE, "special", "", <<>>, <<>>)
    IN
        /\ AtomsIdle
        /\ TextIdle
        /\ TierIdle
        /\ ParseIdle
        /\ SessionIdle
        /\ card_a = BlankCard("A")
        /\ card_b = BlankCard("B")
        /\ synergy = None

\* one more Effect on the first card
AddEffectA(e) ==
    /\ Len(card_a.effects) + Len(card_b.effects) < MaxEffects
    /\ card_a' = [card_a EXCEPT !.effects = Append(@, e)]
    /\ synergy' = None
    /\ score' = None
    /\ summary' = None
    /\ UNCHANGED <<card_b, row, card, kept, calls, atomVars, textVars,
                   tierVars, parseVars>>

\* one more Effect on the second card
AddEffectB(e) ==
    /\ Len(card_a.effects) + Len(card_b.effects) < MaxEffects
    /\ card_b' = [card_b EXCEPT !.effects = Append(@, e)]
    /\ synergy' = None
    /\ score' = None
    /\ summary' = None
    /\ UNCHANGED <<card_a, row, card, kept, calls, atomVars, textVars,
                   tierVars, parseVars>>

\* ScoreSynergy without the card-level feeds from card_b to card_a
ScoreSynergyOneWay ==
    /\ IsNone(synergy)
    /\ synergy' =
          Some(card_synergy(card_a, card_b)
               - 30 * Cardinality(all_result_tags(card_b)
                                    \cap all_trigger_tags(card_a)))
    /\ UNCHANGED <<card_a, card_b, atomVars, textVars, tierVars, parseVars,
                   sessionVars>>

\* ScoreSynergy with the scarce-cost penalty taken for every pair of
\* effects instead of once for the two cards
ScoreSynergyPenaltyPerPair ==
    /\ IsNone(synergy)
    /\ synergy' =
          Some(LET bad(e) ==
                       {<<t.kind, t.resource>> :
                           t \in {u \in e.cost_tags :
                                     <<u.kind, u.resource>>
                                         \in {<<"SACRIFICE", "PERMANENT">>,
                                              <<"LOSE", "LIFE">>}}}
                   Pairs(a, b) ==
                       [k \in 1..(Len(a.effects) * Len(b.effects)) |->
                           Cardinality(
                               bad(a.effects[((k - 1) \div Len(b.effects)) + 1])
                               \cap bad(b.effects[((k - 1) % Len(b.effects)) + 1]))]
                   Shared(a, b) ==
                       Cardinality(UNION {bad(a.effects[i]) : i \in 1..Len(a.effects)}
                                   \cap UNION {bad(b.effects[i]) : i \in 1..Len(b.effects)})
               IN  card_synergy(card_a, card_b)
                       + 10 * Shared(card_a, card_b)
                       - 10 * SumSeq(Pairs(card_a, card_b)))
    /\ UNCHANGED <<card_a, card_b, atomVars, textVars, tierVars, parseVars,
                   sessionVars>>

\* ScoreSynergy with the score clamped at zero
ScoreSynergyClamped ==
    /\ IsNone(synergy)
    /\ synergy' = Some(IF card_synergy(card_a, card_b) < 0 THEN 0
                       ELSE card_synergy(card_a, card_b))
    /\ UNCHANGED <<card_a, card_b, atomVars, textVars, tierVars, parseVars,
                   sessionVars>>

\* synergy = card_synergy(card_a, card_b)
ScoreSynergy ==
    /\ IsNone(synergy)
    /\ synergy' = Some(card_synergy(card_a, card_b))
    /\ UNCHANGED <<card_a, card_b, atomVars, textVars, tierVars, parseVars,
                   sessionVars>>

\* ScoreEngine with the score clamped at zero
ScoreEngineClamped ==
    /\ IsNone(score)
    /\ score' = Some(IF engine_score(card_a) < 0 THEN 0 ELSE engine_score(card_a))
    /\ UNCHANGED <<row, card, kept, calls, summary, atomVars, textVars,
                   tierVars, parseVars, synergyVars>>

\* score = engine_score(card_a)
ScoreEngine ==
    /\ IsNone(score)
    /\ score' = Some(engine_score(card_a))
    /\ UNCHANGED <<row, card, kept, calls, summary, atomVars, textVars,
                   tierVars, parseVars, synergyVars>>

\* summary = summarize_card_engine(card_a)
SummarizeEngine ==
    /\ IsNone(summary)
    /\ summary' = Some(summarize_card_engine(card_a))
    /\ UNCHANGED <<row, card, kept, calls, score, atomVars, textVars,
                   tierVars, parseVars, synergyVars>>

NextSynergy ==
    \/ \E e \in EffectSamples : AddEffectA(e)
    \/ \E e \in EffectSamples : AddEffectB(e)
    \/ ScoreSynergy
    \/ ScoreEngine
    \/ SummarizeEngine

SpecSynergy == InitSynergy /\ [][NextSynergy]_vars

\* the oracle text of C1
DiesDrawText == "Whenever a creature you control dies, draw a card."

\* C1: for the oracle text "Whenever a creature you control dies, draw a
\* card." parse_effects_from_text yields exactly one Effect, with
\* effect_type triggered, trigger_text "Whenever a creature you control
\* dies", result_text "draw a card.", result_tags containing
\* (DRAW, CARD, YOU) and trigger_tags containing
\* (DIES, PERMANENT, YOUR_PERMANENT).
C1_DiesDrawTriggerParsed ==
    (oracle_text = DiesDrawText /\ ~IsNone(effects)) =>
        /\ Len(Val(effects)) = 1
        /\ Val(effects)[1].effect_type = "triggered"
        /\ Val(effects)[1].trigger_text
                = Some("Whenever a creature you control dies")
        /\ Val(effects)[1].result_text = "draw a card."
        /\ ev("DRAW", "CARD", "YOU") \in Val(effects)[1].result_tags
        /\ ev("DIES", "PERMANENT", "YOUR_PERMANENT")
                \in Val(effects)[1].trigger_tags

\* what the parse of that text holds: everything C1 names, but for the
\* trigger_text, where the prefix match "When" is cut from "ever"
C1_Witness ==
    /\ oracle_text = DiesDrawText
    /\ ~IsNone(effects)
    /\ Len(Val(effects)) = 1
    /\ Val(effects)[1].effect_type = "triggered"
    /\ Val(effects)[1].trigger_text
            = Some("When ever a creature you control dies")
    /\ Val(effects)[1].result_text = "draw a card."
    /\ ev("DRAW", "CARD", "YOU") \in Val(effects)[1].result_tags
    /\ ev("DIES", "PERMANENT", "YOUR_PERMANENT")
            \in Val(effects)[1].trigger_tags

\* the oracle text of C2
SacrificeDrawText == "Sacrifice a creature: Draw two cards."

\* a ZoneMove from the battlefield to the graveyard of a PERMANENT, caused by
\* a sacrifice
IsSacrificeMove(a) ==
    /\ a.variant = "ZoneMove"
    /\ a.from_zone = "BATTLEFIELD"
    /\ a.to_zone = "GRAVEYARD"
    /\ a.obj = "PERMANENT"
    /\ a.cause = "SACRIFICE"

\* the Effects parsed from the ability "Sacrifice a creature: Draw two cards."
SacrificeDrawEffects ==
    {i \in 1..Len(Val(effects)) : Val(effects)[i].raw_text = SacrificeDrawText}

\* C2: for the oracle text "Sacrifice a creature: Draw two cards."
\* parse_effects_from_text yields an Effect with effect_type activated, whose
\* cost_atoms holds a ZoneMove from BATTLEFIELD to GRAVEYARD of object kind
\* PERMANENT with cause SACRIFICE, and whose result_actions is exactly one
\* ActionUnit, with verb "draw", quantity 2 and kind DRAW_CARD; the same
\* holds of that ability wherever it stands in an oracle text.
C2_SacrificeDrawTwoParsed ==
    ~IsNone(effects) =>
        /\ oracle_text = SacrificeDrawText => SacrificeDrawEffects = {1}
        /\ \A i \in SacrificeDrawEffects :
               LET e == Val(effects)[i]
               IN  /\ e.effect_type = "activated"
                   /\ \E k \in 1..Len(e.cost_atoms) :
                          IsSacrificeMove(e.cost_atoms[k])
                   /\ Len(e.result_actions) = 1
                   /\ e.result_actions[1].verb = "draw"
                   /\ e.result_actions[1].quantity = Some(2)
                   /\ e.result_actions[1].kind = Some("DRAW_CARD")

C2_Witness ==
    /\ oracle_text = SacrificeDrawText
    /\ ~IsNone(effects)
    /\ Len(Val(effects)) = 1
    /\ Val(effects)[1].effect_type = "activated"
    /\ Len(Val(effects)[1].result_actions) = 1
    /\ Val(effects)[1].result_actions[1].quantity = Some(2)

\* C3: a clause that satisfies is_replacement_like and is_triggered_like is
\* classified "replacement" by classify_tier, never "triggered"; the clause
\* of "If a creature you control would die, instead exile it." is
\* classified "replacement".
C3_BothTestsGiveReplacement ==
    ~IsNone(tier) =>
        /\ (is_replacement_like(clause) /\ is_triggered_like(clause))
              => Val(tier) = "replacement"
        /\ oracle_text
              = "If a creature you control would die, instead exile it."
              => Val(tier) = "replacement"

C3_Witness ==
    /\ clause = "Whenever a creature you control would die, instead exile it"
    /\ is_replacement_like(clause)
    /\ is_triggered_like(clause)
    /\ tier = Some("replacement")

\* C4: each classifier returns the first of replacement, triggered,
\* activated whose test holds of the clause it is given, and its static
\* result only when none of its three tests holds.
C4_SamePrecedenceOrder ==
    /\ ~IsNone(tier) =>
          LET r == is_replacement_like(clause)
              t == is_triggered_like(clause)
              a == is_activated_like(clause)
          IN  /\ r => Val(tier) = "replacement"
              /\ (~r /\ t) => Val(tier) = "triggered"
              /\ (~r /\ ~t /\ a) => Val(tier) = "activated"
              /\ Val(tier) = "static_or_other" => (~r /\ ~t /\ ~a)
    /\ ~IsNone(guess) =>
          LET r == GuessReplacement(ability)
              t == GuessTriggered(ability)
              a == GuessActivated(ability)
          IN  /\ r => Val(guess) = "replacement"
              /\ (~r /\ t) => Val(guess) = "triggered"
              /\ (~r /\ ~t /\ a) => Val(guess) = "activated"
              /\ Val(guess) = "static" => (~r /\ ~t /\ ~a)

C4_Witness ==
    /\ is_replacement_like(clause)
    /\ is_triggered_like(clause)
    /\ is_activated_like(clause)
    /\ tier = Some("replacement")
    /\ ~GuessReplacement(ability)
    /\ GuessTriggered(ability)
    /\ GuessActivated(ability)
    /\ guess = Some("triggered")

\* the pattern is the copy of the atom with exactly field f changed as `how`
CopiedWithOneEdit(f, how) ==
    /\ copied
    /\ edits = {<<f, how>>}
    /\ ~IsNone(matched)

\* C5: a pattern that copies every field of the atom and then has exactly
\* one field set to the wildcard matches the atom, for every variant and
\* every field.
C5_OneWildcardMatches ==
    \A f \in AllPatternFields :
        CopiedWithOneEdit(f, "wildcard") => Val(matched) = TRUE

C5_Witness ==
    \E f \in SharedFields(pattern.variant) :
        /\ CopiedWithOneEdit(f, "wildcard")
        /\ ~IsNone(AsPatternField(atom, f))
        /\ matched = Some(TRUE)

\* the pattern is the copy of the atom with exactly the shared field f set
\* to a concrete value other than the atom's
CopiedWithOneDifferentValue(f) ==
    /\ CopiedWithOneEdit(f, "concrete")
    /\ f \in SharedFields(pattern.variant)
    /\ pattern[f] # AsPatternField(atom, f)

\* C6 as claimed: a copy of the atom with exactly one field changed to a
\* different concrete value never matches, for every field of every
\* variant, set_mask and clear_mask included.
C6_AnyDifferentValueFails ==
    \A f \in AllPatternFields :
        CopiedWithOneDifferentValue(f) => Val(matched) = FALSE

\* C6 amended: a copy of the atom with exactly one field changed to a
\* different concrete value does not match when the field is not a mask;
\* when it is set_mask or clear_mask the copy fails to match exactly when
\* the new mask holds a flag the atom's mask lacks.
C6_DifferentValueFailsExceptSubMask ==
    \A f \in AllPatternFields :
        CopiedWithOneDifferentValue(f) =>
            IF f \in MaskFields
            THEN (Val(matched) = FALSE)
                    <=> ~(FlagsOf(Val(pattern[f])) \subseteq FlagsOf(atom[f]))
            ELSE Val(matched) = FALSE

C6_Witness ==
    /\ CopiedWithOneDifferentValue("set_mask")
    /\ atom.set_mask = BitOr(TAPPED, FACE_DOWN)
    /\ pattern.set_mask = Some(TAPPED)
    /\ matched = Some(TRUE)

\* the fields of a StateDeltaPattern that are compared by equality
StateDeltaEqualityAgrees ==
    \A f \in SharedFields("StateDeltaPattern") \ MaskFields :
        IsNone(pattern[f]) \/ pattern[f] = AsPatternField(atom, f)

\* every flag of the pattern's mask f is in the atom's mask f
MaskIsSubset(f) ==
    IsNone(pattern[f]) \/ FlagsOf(Val(pattern[f])) \subseteq FlagsOf(atom[f])

\* C7: a StateDeltaPattern whose other fields agree matches a StateDelta
\* exactly when each flag of its set_mask is in the atom's set_mask and each
\* flag of its clear_mask is in the atom's clear_mask (TAPPED matches
\* TAPPED | FACE_DOWN, TAPPED | FACE_DOWN does not match TAPPED).
C7_MaskSubsetSemantics ==
    (/\ pattern.variant = "StateDeltaPattern"
     /\ atom.variant = "StateDelta"
     /\ ~IsNone(matched)
     /\ StateDeltaEqualityAgrees)
        => (Val(matched) <=> (MaskIsSubset("set_mask")
                                /\ MaskIsSubset("clear_mask")))

C7_Witness ==
    /\ pattern.variant = "StateDeltaPattern"
    /\ atom.variant = "StateDelta"
    /\ StateDeltaEqualityAgrees
    /\ pattern.set_mask = Some(BitOr(TAPPED, FACE_DOWN))
    /\ atom.set_mask = TAPPED
    /\ MaskIsSubset("clear_mask")
    /\ matched = Some(FALSE)

\* C8: atom_matches returns a boolean for every pair of variants, and FALSE
\* whenever the pattern's variant is not the atom's, whatever the pattern's
\* fields hold.
C8_CrossVariantNeverMatches ==
    ~IsNone(matched) =>
        /\ Val(matched) \in BOOLEAN
        /\ pattern.variant # PatternVariantOf(atom.variant)
                => Val(matched) = FALSE

C8_Witness ==
    /\ pattern = ZoneMovePattern
    /\ atom.variant = "ResourceDelta"
    /\ matched = Some(FALSE)

\* the Effect without the mana deltas of its cost atoms and result atoms
WithoutManaDeltas(e) ==
    [e EXCEPT !.cost_atoms = SelectSeq(@, LAMBDA a : ~IsManaDelta(a)),
              !.result_atoms = SelectSeq(@, LAMBDA a : ~IsManaDelta(a))]

\* the Card with every Effect rid of its mana deltas
CardWithoutManaDeltas(c) ==
    [c EXCEPT !.effects = [i \in 1..Len(@) |-> WithoutManaDeltas(@[i])]]

\* the list holds a mana ResourceDelta with a delta of the given sign
HoldsManaDelta(atoms, sign) ==
    \E i \in 1..Len(atoms) :
        /\ atoms[i].variant = "ResourceDelta"
        /\ atoms[i].resource = "mana"
        /\ atoms[i].delta * sign > 0

\* the pairs <<effect of a, effect of b>> where the first holds a positive
\* mana delta in result_atoms and the second a negative one in cost_atoms
ManaFeeds(a, b) ==
    {p \in (1..Len(a.effects)) \X (1..Len(b.effects)) :
        /\ HoldsManaDelta(a.effects[p[1]].result_atoms, 1)
        /\ HoldsManaDelta(b.effects[p[2]].cost_atoms, -1)}

\* C9: what the mana deltas add to card_synergy is 2.0 for each pair of
\* effects, one of each card, in which one effect's result_atoms holds a
\* mana ResourceDelta with positive delta and the other effect's cost_atoms
\* holds one with negative delta, and nothing else: a negative delta in
\* result_atoms or a positive delta in cost_atoms adds nothing.
C9_ManaFeedNeedsResultAndCost ==
    ~IsNone(synergy) =>
        Val(synergy) - card_synergy(CardWithoutManaDeltas(card_a),
                                    CardWithoutManaDeltas(card_b))
            = 20 * (Cardinality(ManaFeeds(card_a, card_b))
                        + Cardinality({<<p[2], p[1]>> :
                                          p \in ManaFeeds(card_b, card_a)}))

\* a producer on one card; on the other card a consumer and an effect with
\* the negative delta in result_atoms only
C9_Witness ==
    /\ ~IsNone(synergy)
    /\ Cardinality(ManaFeeds(card_a, card_b)) = 1
    /\ ManaFeeds(card_b, card_a) = {}
    /\ Len(card_b.effects) = 2
    /\ \E j \in 1..Len(card_b.effects) :
           /\ HoldsManaDelta(card_b.effects[j].result_atoms, -1)
           /\ ~HoldsManaDelta(card_b.effects[j].cost_atoms, -1)
    /\ Val(synergy) - card_synergy(CardWithoutManaDeltas(card_a),
                                   CardWithoutManaDeltas(card_b)) = 20

Returned == IF IsNone(effects) THEN {} ELSE {Val(effects)[k] : k \in 1..Len(Val(effects))}

\* a token of the clause is a verb of the lexicon
HasVerbToken(c) ==
    \E k \in 1..Len(_simple_tokens(c)) : lower(_simple_tokens(c)[k]) \in VERB_LEXICON

\* C12, as claimed: a clause with no token of the verb lexicon and no
\* glossary keyword produces no Effect, so every Effect returned by
\* parse_effects_from_text holds a verb token or a keyword hit.
C12_NoVerbNoKeywordNoEffect ==
    \A e \in Returned : HasVerbToken(e.raw_text) \/ e.keyword_hits # <<>>

\* "{B}: Regenerate." has no verb token and no keyword hit, and its mana
\* cost alone makes an Effect that is kept
C12_Witness ==
    \E e \in Returned :
        /\ e.raw_text = "{B}: Regenerate."
        /\ ~HasVerbToken(e.raw_text)
        /\ e.keyword_hits = <<>>
        /\ e.cost_tags = {ev("LOSE", "MANA", "YOU")}
        /\ e.result_tags = {}

\* one of the six tag sets and atom lists of the Effect is not empty
HasTagOrAtom(e) ==
    \/ e.trigger_tags # {}
    \/ e.cost_tags # {}
    \/ e.result_tags # {}
    \/ e.trigger_atoms # <<>>
    \/ e.cost_atoms # <<>>
    \/ e.result_atoms # <<>>

\* C13: every Effect returned by parse_effects_from_text has a tag or an
\* atom; the clause "Flying", which has a keyword hit but no tag and no
\* atom, never contributes an Effect.
C13_EveryEffectHasTagOrAtom ==
    \A e \in Returned : HasTagOrAtom(e) /\ e.raw_text # "Flying"

\* "Flying" is an ability of the text parsed, with a keyword hit, and the
\* only Effect returned is that of the other ability
C13_Witness ==
    /\ oracle_text = "Flying\n{B}: Regenerate."
    /\ _split_abilities(oracle_text) = <<"Flying", "{B}: Regenerate.">>
    /\ _extract_keyword_hits("Flying") # <<>>
    /\ ~IsNone(effects)
    /\ Len(Val(effects)) = 1
    /\ Val(effects)[1].raw_text = "{B}: Regenerate."

\* the options of an Add clause: the pieces between the " or "
RECURSIVE AddOptions(_)
AddOptions(s) ==
    IF contains(s, " or ")
    THEN <<SplitFirst(s, " or ")[1]>> \o AddOptions(SplitFirst(s, " or ")[2])
    ELSE <<s>>

\* the total of an option: a numeric symbol adds its value, X, Y and Z add
\* 0, every other symbol adds 1
OptionTotal(syms) ==
    SumSeq([k \in 1..Len(syms) |->
               IF isdigit(syms[k]) THEN int(syms[k])
               ELSE IF syms[k] \in {"X", "Y", "Z"} THEN 0
               ELSE 1])

\* the mana ResourceDelta the claim describes for a result text
ExpectedManaGain(text) ==
    LET Symbols(opt) == SelectSeq(_mana_symbols(opt), LAMBDA x : x \notin {"T", "Q"})
        OfOptions(opts) ==
            ResourceDelta("mana",
                          CHOOSE m \in {OptionTotal(opts[k]) : k \in 1..Len(opts)} :
                              \A k \in 1..Len(opts) : OptionTotal(opts[k]) <= m,
                          Some("YOU"),
                          Some(join("|", [k \in 1..Len(opts) |-> join("", opts[k])])),
                          "EFFECT", "CARD")
        NonEmpty(all) == OfOptions(SelectSeq(all, LAMBDA syms : syms # <<>>))
        OfPieces(pieces) == NonEmpty([k \in 1..Len(pieces) |-> Symbols(pieces[k])])
    IN  OfPieces(AddOptions(text))

\* C14, as claimed: a result text with "Add" and symbols in braces gives
\* exactly one mana ResourceDelta: its delta is the greatest total among
\* the options separated by " or " (a number adds its value, X/Y/Z add 0,
\* {T}/{Q} are left out, any other symbol adds 1), its subtype the options'
\* symbols joined by "|".  "Add {G} or {U}." gives
\* ResourceDelta(mana, +1, "G|U") and nothing else.
C14_AddClauseGivesOneManaDelta ==
    \A e \in Returned :
        /\ (contains(e.result_text, "Add") /\ contains(e.result_text, "{"))
              => SelectSeq(e.result_atoms, IsManaDelta)
                   = <<ExpectedManaGain(e.result_text)>>
        /\ e.result_text = "Add {G} or {U}."
              => e.result_atoms = <<ResourceDelta("mana", 1, Some("YOU"), Some("G|U"),
                                                  "EFFECT", "CARD")>>

\* "Add {C}{C}. Spend this mana." gives the mana ResourceDelta of the Add
\* clause and a second one, of the action unit add + mana
C14_Witness ==
    \E e \in Returned :
        /\ e.raw_text = "{T}: Add {C}{C}. Spend this mana."
        /\ e.result_text = "Add {C}{C}. Spend this mana."
        /\ e.result_atoms =
              <<ExpectedManaGain(e.result_text),
                ResourceDelta("mana", 1, Some("YOU"), None, "EFFECT", "CARD")>>
        /\ ExpectedManaGain(e.result_text).delta = 2
        /\ ExpectedManaGain(e.result_text).subtype = Some("CC")

\* C15: every Effect returned by parse_effects_from_text that is triggered
\* has a trigger text that is not empty, and every Effect that is activated
\* has a cost text that is not empty.
C15_TriggeredAndActivatedHaveTheirText ==
    \A e \in Returned :
        /\ e.effect_type = "triggered"
              => (~IsNone(e.trigger_text) /\ Val(e.trigger_text) # "")
        /\ e.effect_type = "activated"
              => (~IsNone(e.cost_text) /\ Val(e.cost_text) # "")

\* a triggered Effect without result text and an activated Effect returned
\* by one call
C15_Witness ==
    /\ \E e \in Returned :
          /\ e.effect_type = "triggered"
          /\ e.result_text = ""
          /\ e.trigger_text = Some("When ever a creature you control dies")
    /\ \E e \in Returned :
          /\ e.effect_type = "activated"
          /\ e.cost_text = Some("Sacrifice a creature")

\* the trigger text or the cost text of an Effect, "" when it has neither
ConditionText(e) ==
    IF ~IsNone(e.trigger_text) THEN Val(e.trigger_text)
    ELSE IF ~IsNone(e.cost_text) THEN Val(e.cost_text)
    ELSE ""

\* C16, as claimed: the trigger text or cost text and the result text of
\* every Effect returned occur verbatim in raw_text, the first ending
\* before the second starts.
C16_TextsAreDisjointSpansOfRawText ==
    \A e \in Returned :
        \E i \in 1..(Len(e.raw_text) + 1) :
            /\ OccursAt(e.raw_text, ConditionText(e), i)
            /\ \E j \in (i + Len(ConditionText(e)))..(Len(e.raw_text) + 1) :
                  OccursAt(e.raw_text, e.result_text, j)

\* a trigger text that does not occur in raw_text: the prefix "When" of
\* "Whenever" and the rest "ever a creature you control dies" were joined
\* by a space
C16_Witness ==
    \E e \in Returned :
        /\ startswith(e.raw_text, "Whenever a creature you control dies,")
        /\ e.trigger_text = Some("When ever a creature you control dies")
        /\ ~contains(e.raw_text, Val(e.trigger_text))
        /\ contains(e.raw_text, e.result_text)

\* C17, as claimed: the mana_value of the Card made of a row is 0.0 when
\* the row's cmc is absent, None, NaN or not convertible to a number, and
\* the number cmc holds otherwise.
C17_ManaValueZeroOrNumeric ==
    ~IsNone(card) =>
        Val(card).mana_value =
            (CASE row.cmc.tag = "num" -> row.cmc
               [] row.cmc.tag = "str" /\ isdigit(strip(row.cmc.text)) ->
                      Num(int(strip(row.cmc.text)))
               [] OTHER -> Num(0))

\* a Card made of a row whose cmc is NaN: its mana_value is NaN, while the
\* fields made of the sample values are as the row gives them
C17_Witness ==
    /\ ~IsNone(card)
    /\ row.cmc = NaN
    /\ Val(card).mana_value = NaN
    /\ Val(card).name = "Bob"
    /\ Val(card).mana_cost = "{G}"

\* the row holds no usable value for the field: absent, None or NaN
Missing(f) == row[f].tag \in {"absent", "none", "nan"}

\* C18, as claimed: a Card is made of every row; name, oracle_text and
\* mana_cost are "" when the row's field is absent, None or NaN; keywords
\* and colors are empty when the row's field is absent, None, NaN or a
\* number; and the effects list is empty when oracle_text is absent.
C18_MalformedFieldsGiveDefaults ==
    ~IsNone(card) =>
        /\ Missing("name") => Val(card).name = ""
        /\ Missing("oracle_text") => Val(card).oracle_text = ""
        /\ Missing("mana_cost") => Val(card).mana_cost = ""
        /\ (Missing("keywords") \/ row.keywords.tag = "num")
                => Val(card).keywords = <<>>
        /\ (Missing("color_identity") \/ row.color_identity.tag = "num")
                => Val(card).colors = <<>>
        /\ row.oracle_text.tag = "absent" => Val(card).effects = <<>>

\* a Card made of a row whose name is NaN and whose keywords are a number:
\* the name is "nan", the keywords are empty
C18_Witness ==
    /\ ~IsNone(card)
    /\ row.name = NaN
    /\ row.keywords = Num(5)
    /\ Val(card).name = "nan"
    /\ Val(card).keywords = <<>>
    /\ Val(card).colors = <<"G">>

\* the pairs <<i, tag>> of an effect of the card and a tag of its set f
TagsByEffect(c, f) ==
    UNION {{<<i, t>> : t \in c.effects[i][f]} : i \in 1..Len(c.effects)}

\* the pairs <<effect of a, effect of b>> that Feeds relates
FeedingPairs(a, b, Feeds(_, _)) ==
    {p \in (1..Len(a.effects)) \X (1..Len(b.effects)) :
        Feeds(a.effects[p[1]], b.effects[p[2]])}

\* a result tag of ea is a trigger tag of eb
TagFeeds(ea, eb) == \E t \in ea.result_tags : t \in eb.trigger_tags

\* ea makes mana in its result atoms, eb pays mana in its cost atoms
ManaFeedsEffect(ea, eb) ==
    HoldsManaDelta(ea.result_atoms, 1) /\ HoldsManaDelta(eb.cost_atoms, -1)

\* ea puts a token or a permanent of yours onto the battlefield in its
\* result atoms, eb sacrifices a permanent of yours in its cost atoms
BodyFeeds(ea, eb) ==
    /\ \E i \in 1..Len(ea.result_atoms) :
          /\ ea.result_atoms[i].variant = "ZoneMove"
          /\ ea.result_atoms[i].to_zone = "BATTLEFIELD"
          /\ ea.result_atoms[i].obj \in {"TOKEN", "PERMANENT"}
          /\ ea.result_atoms[i].controller = Some("YOU")
    /\ \E j \in 1..Len(eb.cost_atoms) :
          /\ eb.cost_atoms[j].variant = "ZoneMove"
          /\ eb.cost_atoms[j].from_zone = "BATTLEFIELD"
          /\ eb.cost_atoms[j].to_zone = "GRAVEYARD"
          /\ eb.cost_atoms[j].obj = "PERMANENT"
          /\ eb.cost_atoms[j].controller = Some("YOU")
          /\ eb.cost_atoms[j].cause = "SACRIFICE"

\* the tags of the set f of any effect of the card
CardTags(c, f) == {p[2] : p \in TagsByEffect(c, f)}

\* the stacking outputs among the result tags of the card
GoodOutputs(c) ==
    {pair \in {<<"DRAW", "CARD">>, <<"CREATE", "TOKEN">>, <<"ADD", "COUNTER">>,
                <<"ADD", "MANA">>, <<"GAIN", "LIFE">>} :
        \E t \in CardTags(c, "result_tags") :
            /\ <<t.kind, t.resource>> = pair
            /\ t.scope \in {"YOU", "YOUR_PERMANENT"}}

\* the scarce costs among the cost tags of the card
ScarceCosts(c) ==
    {pair \in {<<"SACRIFICE", "PERMANENT">>, <<"LOSE", "LIFE">>} :
        \E t \in CardTags(c, "cost_tags") : <<t.kind, t.resource>> = pair}

\* the number of pairs of effects, in both directions, that Feeds relates
BothWays(Feeds(_, _)) ==
    Cardinality(FeedingPairs(card_a, card_b, Feeds))
        + Cardinality(FeedingPairs(card_b, card_a, Feeds))

\* C19: card_synergy(a, b), in tenths, is 30 for each tag that is a result
\* of one card and a trigger of the other; for each pair of effects 30 for
\* each direction of result tags meeting trigger tags, 20 for each
\* direction of mana made feeding mana paid and 20 for each direction of
\* bodies made feeding a sacrifice; 15 for each stacking output both cards
\* have; minus 10 for each scarce cost both cards have; not clamped.
C19_SynergyIsTheStatedSum ==
    ~IsNone(synergy) =>
        Val(synergy) =
            30 * (Cardinality(CardTags(card_a, "result_tags")
                                \cap CardTags(card_b, "trigger_tags"))
                    + Cardinality(CardTags(card_b, "result_tags")
                                    \cap CardTags(card_a, "trigger_tags")))
            + 30 * BothWays(TagFeeds)
            + 20 * BothWays(ManaFeedsEffect)
            + 20 * BothWays(BodyFeeds)
            + 15 * Cardinality(GoodOutputs(card_a) \cap GoodOutputs(card_b))
            - 10 * Cardinality(ScarceCosts(card_a) \cap ScarceCosts(card_b))

\* a card that sacrifices to draw and draws on a draw, and a card that
\* sacrifices to draw: a tag and a pair of effects feed one way, the cards
\* share an output and a scarce cost, 3.0 + 3.0 + 1.5 - 1.0
C19_Witness ==
    /\ ~IsNone(synergy)
    /\ Cardinality(CardTags(card_b, "result_tags")
                    \cap CardTags(card_a, "trigger_tags")) = 1
    /\ CardTags(card_b, "trigger_tags") = {}
    /\ Cardinality(FeedingPairs(card_b, card_a, TagFeeds)) = 1
    /\ GoodOutputs(card_a) \cap GoodOutputs(card_b) = {<<"DRAW", "CARD">>}
    /\ ScarceCosts(card_a) \cap ScarceCosts(card_b)
            = {<<"SACRIFICE", "PERMANENT">>}
    /\ Val(synergy) = 65

\* the number of pairs <<effect, tag of its set f>> of card_a that pass Test
TagHits(f, Test(_)) ==
    Cardinality({p \in TagsByEffect(card_a, f) : Test(p[2])})

\* the number of effects of card_a with a cost tag that passes Test
CostHits(Test(_)) ==
    Cardinality({i \in 1..Len(card_a.effects) :
                    \E t \in card_a.effects[i].cost_tags : Test(t)})

\* C20: engine_score(card), in tenths, is 15 for each trigger tag DRAW of
\* scope YOU, 15 for each trigger tag GAIN of LIFE, 10 for each trigger tag
\* ENTERS of scope YOUR_PERMANENT or ANY_PERMANENT, 10 for each trigger tag
\* DIES, 30 for each result tag DRAW of CARD, 25 for each result tag CREATE
\* of TOKEN, 10 for each result tag GAIN of LIFE, minus 10 for each effect
\* with a cost tag SACRIFICE of PERMANENT and minus 5 for each effect with
\* a cost tag LOSE of LIFE, the tags counted effect by effect; nothing
\* else, and not normalized.
C20_EngineScoreIsTheStatedSum ==
    ~IsNone(score) =>
        Val(score) =
            15 * TagHits("trigger_tags", LAMBDA t : t.kind = "DRAW" /\ t.scope = "YOU")
            + 15 * TagHits("trigger_tags",
                           LAMBDA t : t.kind = "GAIN" /\ t.resource = "LIFE")
            + 10 * TagHits("trigger_tags",
                           LAMBDA t : /\ t.kind = "ENTERS"
                                      /\ t.scope \in {"YOUR_PERMANENT",
                                                       "ANY_PERMANENT"})
            + 10 * TagHits("trigger_tags", LAMBDA t : t.kind = "DIES")
            + 30 * TagHits("result_tags",
                           LAMBDA t : t.kind = "DRAW" /\ t.resource = "CARD")
            + 25 * TagHits("result_tags",
                           LAMBDA t : t.kind = "CREATE" /\ t.resource = "TOKEN")
            + 10 * TagHits("result_tags",
                           LAMBDA t : t.kind = "GAIN" /\ t.resource = "LIFE")
            - 10 * CostHits(LAMBDA t : t.kind = "SACRIFICE"
                                        /\ t.resource = "PERMANENT")
            - 5 * CostHits(LAMBDA t : t.kind = "LOSE" /\ t.resource = "LIFE")

\* a card with the same triggered effect twice and an effect with both
\* costs: each effect counts on its own, 2 * (1.5 + 1.5 + 3.0 + 1.0) - 1.0
\* - 0.5
C20_Witness ==
    /\ ~IsNone(score)
    /\ Len(card_a.effects) = 3
    /\ Cardinality(CardTags(card_a, "trigger_tags")) = 2
    /\ TagHits("trigger_tags", LAMBDA t : TRUE) = 4
    /\ CostHits(LAMBDA t : t.kind = "LOSE" /\ t.resource = "LIFE") = 1
    /\ Val(score) = 125

\* C21: the short forms in the summary of a card are as many as the tags
\* of the card, set by set: no two tags have the same short form. The
\* short form is "KIND:RESOURCE:SCOPE:STEP", with "-" for no step.
C21_ShortFormIsOneToOne ==
    ~IsNone(summary) =>
        /\ Cardinality(Val(summary).triggers)
                = Cardinality(CardTags(card_a, "trigger_tags"))
        /\ Cardinality(Val(summary).results)
                = Cardinality(CardTags(card_a, "result_tags"))
        /\ Cardinality(Val(summary).costs)
                = Cardinality(CardTags(card_a, "cost_tags"))

\* the summary of a card with two trigger tags that differ in the scope
\* only and a trigger tag with a step, all four short forms told apart
C21_Witness ==
    /\ ~IsNone(summary)
    /\ Val(summary).triggers =
            {"ENTERS:PERMANENT:YOUR_PERMANENT:-", "ENTERS:PERMANENT:SELF:-",
             "DIES:PERMANENT:YOUR_PERMANENT:-", "STEP:PERMANENT:YOU:UPKEEP"}
    /\ Val(summary).results = {"CREATE:TOKEN:YOU:-"}
    /\ Val(summary).costs = {}

\* C22, as claimed: for the clause "draw a card. discard a card."
\* extract_action_units returns more than one ActionUnit, one for each of
\* the two actions.
C22_DrawThenDiscardGivesTwoUnits ==
    \A e \in Returned :
        e.result_text = "draw a card. discard a card."
            => Len(e.result_actions) = 2

\* the result actions of that clause: the unit of "draw" alone, "discard"
\* being no verb of VERB_LEXICON
C22_Witness ==
    \E e \in Returned :
        /\ e.result_text = "draw a card. discard a card."
        /\ "discard" \notin VERB_LEXICON
        /\ e.result_actions =
              <<ActionUnit("draw", Some(1), Some("card"), None, Some("DRAW_CARD"),
                           e.result_text)>>

\* C23, as claimed: an ActionUnit with a kind of ACTION_LIBRARY among the
\* result actions of an Effect comes with an EventTag in result_tags and an
\* Atom in result_atoms.
C23_EveryKindGivesTagAndAtom ==
    \A e \in Returned :
        (\E k \in 1..Len(e.result_actions) : ~IsNone(e.result_actions[k].kind))
            => (e.result_tags # {} /\ e.result_atoms # <<>>)

\* "{T}: Mill two cards.": a result action of kind MILL_CARD, no result
\* tag and no result atom
C23_Witness ==
    \E e \in Returned :
        /\ e.raw_text = "{T}: Mill two cards."
        /\ Len(e.result_actions) = 1
        /\ e.result_actions[1].kind = Some("MILL_CARD")
        /\ e.result_actions[1].kind
                = Some(ACTION_LIBRARY[<<"mill", "cards">>])
        /\ e.result_tags = {}
        /\ e.result_atoms = <<>>

\* the index of the first comma of a text that holds one
FirstComma(s) == CHOOSE i \in 1..Len(s) : Char(s, i) = "," /\ \A j \in 1..(i - 1) : Char(s, j) # ","

\* C24, as claimed: of a triggered clause with a comma after the preamble,
\* the trigger text is the clause up to its first comma, the preamble
\* unaltered, and the result text is the trimmed text after that comma.
C24_TriggerTextIsClauseUpToComma ==
    \A e \in Returned :
        (e.effect_type = "triggered" /\ contains(e.raw_text, ","))
            => /\ e.trigger_text
                    = Some(SubSeq(e.raw_text, 1, FirstComma(e.raw_text) - 1))
               /\ e.result_text
                    = strip(SubSeq(e.raw_text, FirstComma(e.raw_text) + 1,
                                   Len(e.raw_text)))

\* a clause that starts with "Whenever": the result text is the text after
\* the comma, the trigger text is one character longer than the clause up
\* to the comma
C24_Witness ==
    \E e \in Returned :
        /\ e.effect_type = "triggered"
        /\ startswith(e.raw_text, "Whenever ")
        /\ contains(e.raw_text, ",")
        /\ e.result_text
                = strip(SubSeq(e.raw_text, FirstComma(e.raw_text) + 1,
                               Len(e.raw_text)))
        /\ e.result_text = "draw a card."
        /\ Len(Val(e.trigger_text)) = FirstComma(e.raw_text)
        /\ SubSeq(Val(e.trigger_text), 1, 5) = "When "

\* the abilities of oracle_text that are triggered and hold no comma
CommalessTriggers ==
    {a \in {strip(_split_abilities(oracle_text)[k]) :
                k \in 1..Len(_split_abilities(oracle_text))} :
        a # "" /\ _guess_effect_type(a) = "triggered" /\ ~contains(a, ",")}

\* C25: a triggered clause without a comma gives an Effect whose trigger
\* text is the whole clause and whose result text, result tags, result
\* actions and result atoms are empty; the Effect is kept only if its
\* trigger tags are not empty.
C25_CommalessTriggerHasNoResult ==
    ~IsNone(effects) =>
        \A a \in CommalessTriggers :
            /\ \A e \in Returned :
                   e.raw_text = a
                       => /\ e.effect_type = "triggered"
                          /\ e.trigger_text = Some(a)
                          /\ e.result_text = ""
                          /\ e.result_tags = {}
                          /\ e.result_actions = <<>>
                          /\ e.result_atoms = <<>>
                          /\ e.trigger_tags # {}
            /\ (\E e \in Returned : e.raw_text = a)
                   <=> _parse_trigger_tags(a, "") # {}

\* "Whenever you draw a card" is kept with its trigger tag, "Whenever you
\* attack", which has no trigger tag, is not
C25_Witness ==
    /\ ~IsNone(effects)
    /\ {"Whenever you draw a card", "Whenever you attack"} \subseteq CommalessTriggers
    /\ \E e \in Returned :
          /\ e.raw_text = "Whenever you draw a card"
          /\ e.trigger_text = Some(e.raw_text)
          /\ e.trigger_tags = {ev("DRAW", "CARD", "YOU")}
          /\ e.result_text = ""
    /\ \A e \in Returned : e.raw_text # "Whenever you attack"

C30_SubSpansBelongToTheirTier ==
    \A e \in Returned :
        /\ (\/ ~IsNone(e.trigger_text)
            \/ e.trigger_tags # {}
            \/ e.trigger_actions # <<>>) => e.effect_type = "triggered"
        /\ (\/ ~IsNone(e.cost_text)
            \/ e.cost_tags # {}
            \/ e.cost_actions # <<>>
            \/ e.cost_atoms # <<>>) => e.effect_type = "activated"
        /\ e.trigger_atoms = <<>>

\* one call returns a triggered Effect with its trigger fields filled, an
\* activated Effect with its cost fields filled, and a static Effect
C30_Witness ==
    /\ \E e \in Returned :
          /\ e.effect_type = "triggered"
          /\ e.trigger_text = Some("Whenever you draw a card")
          /\ e.trigger_tags # {}
          /\ e.trigger_actions # <<>>
          /\ IsNone(e.cost_text)
    /\ \E e \in Returned :
          /\ e.effect_type = "activated"
          /\ e.cost_text = Some("{T}")
          /\ e.cost_atoms # <<>>
          /\ IsNone(e.trigger_text)
    /\ \E e \in Returned :
          /\ e.effect_type = "static"
          /\ e.result_tags # {}
          /\ IsNone(e.trigger_text)
          /\ IsNone(e.cost_text)

\* C27: every ability that _guess_effect_type classifies as "replacement"
\* (it starts with "if " and holds " would " and " instead") is classified
\* "replacement" by classify_tier too.
C27_GuessedReplacementIsReplacementTier ==
    (~IsNone(guess) /\ Val(guess) = "replacement")
        => /\ classify_tier(ability) = "replacement"
           /\ is_replacement_like(ability)

\* the ability "If a creature you control would die, instead exile it."
\* has been guessed a replacement
C27_Witness ==
    /\ guess = Some("replacement")
    /\ ability = "If a creature you control would die, instead exile it."
    /\ classify_tier(ability) = "replacement"

\* C28: card_synergy is symmetric: the score of two cards is the score of
\* the same two cards in the other order.
C28_SynergyIsSymmetric ==
    ~IsNone(synergy) => Val(synergy) = card_synergy(card_b, card_a)

\* two cards with different effects, where card_b feeds card_a by a tag and
\* by a pair of effects and card_a feeds card_b by neither, have been scored
C28_Witness ==
    /\ ~IsNone(synergy)
    /\ card_a.effects # card_b.effects
    /\ card_a.effects # <<>>
    /\ card_b.effects # <<>>
    /\ CardTags(card_b, "result_tags") \cap CardTags(card_a, "trigger_tags") # {}
    /\ CardTags(card_a, "result_tags") \cap CardTags(card_b, "trigger_tags") = {}
    /\ FeedingPairs(card_b, card_a, TagFeeds) # {}
    /\ FeedingPairs(card_a, card_b, TagFeeds) = {}
    /\ Val(synergy) > 0

\* C29: card_synergy(a, b) is at least -2.0, and it is below zero only
\* when a scarce cost (a sacrifice of a permanent, a loss of life) is among
\* the cost tags of both cards.
C29_SynergyIsAtLeastMinusTwo ==
    ~IsNone(synergy) =>
        /\ Val(synergy) >= -20
        /\ Val(synergy) < 0
              => ScarceCosts(card_a) \cap ScarceCosts(card_b) # {}

\* two cards that both sacrifice a permanent and pay life, the first in
\* two effects, and share nothing else: the score is -2.0
C29_Witness ==
    /\ ~IsNone(synergy)
    /\ Len(card_a.effects) = 2
    /\ Len(card_b.effects) = 1
    /\ ScarceCosts(card_a) \cap ScarceCosts(card_b)
            = {<<"SACRIFICE", "PERMANENT">>, <<"LOSE", "LIFE">>}
    /\ Val(synergy) = -20

====
